---- MODULE Spec2Model ----
(***************************************************************************)
(* Model of the Broadchains report parser                                  *)
(* (src/Broadchains_Reporting/broadchains_report_parser.py).               *)
(*                                                                         *)
(* A Python string is a sequence of one-character strings.  Inside the     *)
(* program's values a column name and a calendar date such as 2025-05-09   *)
(* are kept as one element; written to a file they are their characters.   *)
(* The float NaN that pandas gives an empty CSV cell (and None) is the     *)
(* value NaN.                                                              *)
(***************************************************************************)
EXTENDS Integers, Sequences, FiniteSets, TLC

VARIABLES
    call,       \* the helper function applied last and its argument
    ret,        \* the value that call returned
    pc,         \* process_csv: position in the run
    header,     \* process_csv: the column names of the input file's header
    input,      \* process_csv: the data rows of the input file
    pos,        \* process_csv: the number of input rows of the chunks gone through
    groups_written, \* process_csv: the date groups of the current chunk already written
    prior,      \* the output directory as the run found it
    files,      \* the output directory: date string -> content of the file
    stats,      \* process_csv: total_rows_processed, files_created, message_bodies_quoted
    result,     \* what process_csv returned to main
    AUTH_TOKEN,         \* suspend_account.py: the configured token
    SUB_API_KEYS,       \* suspend_account.py: the configured list of keys
    key_index,          \* process_all_subaccounts: i, the position of the key processed last
    results,            \* process_all_subaccounts: the success and failed lists
    upstream,           \* the requests sent to the Vonage API and their outcomes:
                        \* by the run of suspend_account.py, or by the web
                        \* request served last
    app,                \* which web application is running
    api_client,         \* main.py: the global api_client
    credentials_file,   \* main.py: what vonage_numbers_credentials.ini holds
    user_sessions       \* render_main.py: username -> API client

fnvars == <<call, ret>>
runvars == <<pc, header, input, pos, groups_written, prior, files, stats, result>>
csvvars == <<header, input, pos, groups_written, prior, files, stats, result>>
suspendvars == <<AUTH_TOKEN, SUB_API_KEYS, key_index, results>>
webvars == <<app, api_client, credentials_file, user_sessions>>
toolvars == <<AUTH_TOKEN, SUB_API_KEYS, key_index, results, upstream, app, api_client,
              credentials_file, user_sessions>>
vars == <<call, ret, pc, header, input, pos,
          groups_written, prior, files, stats, result,
          AUTH_TOKEN, SUB_API_KEYS, key_index, results, upstream, app, api_client,
          credentials_file, user_sessions>>

(***************************************************************************)
(* Bounds of the model.                                                    *)
(***************************************************************************)
MaxHexLen == 3
MaxUdhLen == 5
MaxBodyLen == 4

\* All sequences over S of length 0..n.
SeqsUpTo(S, n) == UNION {[1..k -> S] : k \in 0..n}

(***************************************************************************)
(* Python values and string primitives.                                    *)
(***************************************************************************)
NaN == <<"NaN">>
Pending == <<"pending">>
QUOTE == "\""

\* pd.isna(v) or v is None
isna(v) == v = NaN

\* str(v): a string is itself, the float NaN is 'nan'
Str(v) == IF v = NaN THEN <<"n", "a", "n">> ELSE v

Digits == {"0", "1", "2", "3", "4", "5", "6", "7", "8", "9"}
HexLetters == {"a", "b", "c", "d", "e", "f", "A", "B", "C", "D", "E", "F"}
Letters == HexLetters \cup {"n", "x", "Z"}

\* str.isalpha / str.isalnum / str.isspace on one character
isalpha(c) == c \in Letters
isalnumChar(c) == c \in Letters \cup Digits
isspace(c) == c = " "

\* str.isalnum(): non-empty and every character alphanumeric
isalnum(s) == s # <<>> /\ \A i \in 1..Len(s) : isalnumChar(s[i])

RECURSIVE lstrip(_)
lstrip(s) == IF s # <<>> /\ isspace(Head(s)) THEN lstrip(Tail(s)) ELSE s

RECURSIVE rstrip(_)
rstrip(s) ==
    IF s # <<>> /\ isspace(s[Len(s)]) THEN rstrip(SubSeq(s, 1, Len(s) - 1)) ELSE s

\* str.strip()
strip(s) == rstrip(lstrip(s))

\* s[-n:], the last n characters (the whole string when it is shorter)
Right(s, n) == IF Len(s) <= n THEN s ELSE SubSeq(s, Len(s) - n + 1, Len(s))

\* s[:n], the first n characters
Left(s, n) == IF Len(s) <= n THEN s ELSE SubSeq(s, 1, n)

\* s.replace(c, '') for a single character c
RECURSIVE RemoveChar(_, _)
RemoveChar(s, c) ==
    IF s = <<>> THEN <<>>
    ELSE IF Head(s) = c THEN RemoveChar(Tail(s), c)
    ELSE <<Head(s)>> \o RemoveChar(Tail(s), c)

HexDigitValue(c) ==
    CASE c = "0" -> 0 [] c = "1" -> 1 [] c = "2" -> 2 [] c = "3" -> 3
      [] c = "4" -> 4 [] c = "5" -> 5 [] c = "6" -> 6 [] c = "7" -> 7
      [] c = "8" -> 8 [] c = "9" -> 9
      [] c \in {"a", "A"} -> 10 [] c \in {"b", "B"} -> 11
      [] c \in {"c", "C"} -> 12 [] c \in {"d", "D"} -> 13
      [] c \in {"e", "E"} -> 14 [] c \in {"f", "F"} -> 15

IsHexDigits(s) == s # <<>> /\ \A i \in 1..Len(s) : s[i] \in Digits \cup HexLetters

RECURSIVE HexDigitsValue(_)
HexDigitsValue(s) ==
    IF s = <<>> THEN 0
    ELSE 16 * HexDigitsValue(SubSeq(s, 1, Len(s) - 1)) + HexDigitValue(s[Len(s)])

\* int(s, 16) accepts an optional sign before the digits; anything else is a
\* ValueError.  (The prefix 0x and digit-separating underscores, which int
\* accepts too, use characters outside the alphabets of this model.)
IntBase16Ok(s) ==
    IF s # <<>> /\ Head(s) \in {"+", "-"} THEN IsHexDigits(Tail(s)) ELSE IsHexDigits(s)

IntBase16(s) ==
    IF Head(s) = "-" THEN 0 - HexDigitsValue(Tail(s))
    ELSE IF Head(s) = "+" THEN HexDigitsValue(Tail(s))
    ELSE HexDigitsValue(s)

DigitChar(d) == <<"0", "1", "2", "3", "4", "5", "6", "7", "8", "9">>[d + 1]

RECURSIVE NatStr(_)
NatStr(n) == IF n < 10 THEN <<DigitChar(n)>> ELSE NatStr(n \div 10) \o <<DigitChar(n % 10)>>

\* str(n) for an integer n
IntStr(n) == IF n < 0 THEN <<"-">> \o NatStr(0 - n) ELSE NatStr(n)

\* f"{n:02d}" for 0 <= n
Pad2(n) == IF n < 10 THEN <<"0">> \o NatStr(n) ELSE NatStr(n)

(***************************************************************************)
(* The helper functions of the parser.                                     *)
(***************************************************************************)
\* hex_to_dec without the leading-letter test of line 161
hex_to_dec_no_alpha_skip(hex_value) ==
    IF isna(hex_value) \/ strip(Str(hex_value)) = <<>> THEN <<"1">>
    ELSE LET hex_str == strip(Str(hex_value)) IN
         IF IntBase16Ok(hex_str) THEN IntStr(IntBase16(hex_str))
         ELSE <<"1">>

\* hex_to_dec answering '0' where line 166 answers '1'
hex_to_dec_default_zero(hex_value) ==
    IF isna(hex_value) \/ strip(Str(hex_value)) = <<>> THEN <<"1">>
    ELSE LET hex_str == strip(Str(hex_value)) IN
         IF isalpha(hex_str[1]) THEN <<"1">>
         ELSE IF IntBase16Ok(hex_str) THEN IntStr(IntBase16(hex_str))
         ELSE <<"0">>

hex_to_dec(hex_value) ==
    IF isna(hex_value) \/ strip(Str(hex_value)) = <<>> THEN <<"1">>
    ELSE LET hex_str == strip(Str(hex_value)) IN
         IF isalpha(hex_str[1]) THEN <<"1">>
         ELSE IF IntBase16Ok(hex_str) THEN IntStr(IntBase16(hex_str))
         ELSE <<"1">>

\* process_message_body without the strip() of line 174
process_message_body_no_strip(message) ==
    IF isna(message) THEN <<>>
    ELSE RemoveChar(Str(message), QUOTE)

process_message_body(message) ==
    IF isna(message) THEN <<>>
    ELSE RemoveChar(strip(Str(message)), QUOTE)

\* extract_total_parts reading the last two characters instead of [-4:-2]
extract_total_parts_last_two(udh) ==
    IF isna(udh) \/ strip(Str(udh)) = <<>> THEN <<"1">>
    ELSE LET udh_str == Str(udh) IN
         IF Len(udh_str) >= 4 THEN hex_to_dec(Right(udh_str, 2))
         ELSE <<"1">>

\* extract_total_parts reading the characters [-6:-4]
extract_total_parts_pair_before(udh) ==
    IF isna(udh) \/ strip(Str(udh)) = <<>> THEN <<"1">>
    ELSE LET udh_str == Str(udh) IN
         IF Len(udh_str) >= 4 THEN hex_to_dec(Left(Right(udh_str, 6), 2))
         ELSE <<"1">>

extract_total_parts(udh) ==
    IF isna(udh) \/ strip(Str(udh)) = <<>> THEN <<"1">>
    ELSE LET udh_str == Str(udh) IN
         IF Len(udh_str) >= 4 THEN hex_to_dec(Left(Right(udh_str, 4), 2))
         ELSE <<"1">>

\* extract_part_num without the isalnum() test of line 355
extract_part_num_no_alnum(udh) ==
    IF ~isna(udh) /\ Len(Str(udh)) >= 2
    THEN hex_to_dec(Right(Str(udh), 2))
    ELSE <<"1">>

\* extract_part_num answering '0' where line 357 answers '1'
extract_part_num_default_zero(udh) ==
    IF ~isna(udh) /\ Len(Str(udh)) >= 2 /\ isalnum(Right(Str(udh), 2))
    THEN hex_to_dec(Right(Str(udh), 2))
    ELSE <<"0">>

extract_part_num(udh) ==
    IF ~isna(udh) /\ Len(Str(udh)) >= 2 /\ isalnum(Right(Str(udh), 2))
    THEN hex_to_dec(Right(Str(udh), 2))
    ELSE <<"1">>

(***************************************************************************)
(* date_received: what the cell holds before and after pd.to_datetime.     *)
(* kind is "str" (text, in s), "NaN" (empty cell / None), "Timestamp" or   *)
(* "NaT".                                                                  *)
(***************************************************************************)
DateValue(kind, s, date, hour, minute, second) ==
    [kind |-> kind, s |-> s, date |-> date, hour |-> hour, minute |-> minute,
     second |-> second]
DateStr(s) == DateValue("str", s, "", 0, 0, 0)
DateNaN == DateValue("NaN", <<>>, "", 0, 0, 0)
NaT == DateValue("NaT", <<>>, "", 0, 0, 0)
Timestamp(date, hour, minute, second) ==
    DateValue("Timestamp", <<>>, date, hour, minute, second)

CalendarDates == {"2025-05-09", "2025-05-10"}

TwoDigits(s, i) == s[i] \in Digits /\ s[i + 1] \in Digits
TwoDigitsValue(s, i) == 10 * HexDigitValue(s[i]) + HexDigitValue(s[i + 1])

\* pd.to_datetime on one text, for the ISO texts of this model:
\* "<date>T<HH>:<MM>:<SS>" and "<date>" alone (midnight); NaT stands for
\* both the coerced result and the raised parse error.
to_datetime(s) ==
    IF Len(s) = 1 /\ s[1] \in CalendarDates THEN Timestamp(s[1], 0, 0, 0)
    ELSE IF /\ Len(s) = 10
            /\ s[1] \in CalendarDates
            /\ s[2] = "T"
            /\ TwoDigits(s, 3) /\ s[5] = ":" /\ TwoDigits(s, 6) /\ s[8] = ":"
            /\ TwoDigits(s, 9)
            /\ TwoDigitsValue(s, 3) < 24
            /\ TwoDigitsValue(s, 6) < 60
            /\ TwoDigitsValue(s, 9) < 60
         THEN Timestamp(s[1], TwoDigitsValue(s, 3), TwoDigitsValue(s, 6),
                        TwoDigitsValue(s, 9))
         ELSE NaT

\* pd.to_datetime(column, errors='coerce') on one cell
to_datetime_coerce(v) == IF v.kind = "str" THEN to_datetime(v.s) ELSE NaT

\* str.split(sep): the texts between the separators
RECURSIVE split(_, _)
split(s, sep) ==
    LET at == {i \in 1..Len(s) : s[i] = sep} IN
    IF at = {} THEN <<s>>
    ELSE LET first == CHOOSE i \in at : \A j \in at : i <= j IN
         <<SubSeq(s, 1, first - 1)>> \o split(SubSeq(s, first + 1, Len(s)), sep)

\* what a call leaves when it raises IndexError
IndexError == <<"IndexError">>

\* line 242: filename.split('_')[2] if '_' in filename else 'unknown';
\* indexing a list of fewer than three tokens raises IndexError
api_key(filename) ==
    IF \E i \in 1..Len(filename) : filename[i] = "_"
    THEN LET tokens == split(filename, "_") IN
         IF Len(tokens) >= 3 THEN tokens[3] ELSE IndexError
    ELSE <<"u", "n", "k", "n", "o", "w", "n">>

\* the "-HHMM" / "-HHMMSS" text of create_tag
time_suffix_of(dt, has_udh) ==
    IF has_udh THEN <<"-">> \o Pad2(dt.hour) \o Pad2(dt.minute)
    ELSE <<"-">> \o Pad2(dt.hour) \o Pad2(dt.minute) \o Pad2(dt.second)

\* create_tag as before v1.1.0: HHMMSS also when udh is present
create_tag_always_seconds(row) ==
    LET udh == row["udh"]
        to == row["to"]
        date_received == row["date_received"]
        has_udh == ~(isna(udh) \/ strip(Str(udh)) = <<>>)
        udh_str == Str(udh)
        udh_prefix ==
            IF Len(udh_str) > 4 THEN SubSeq(udh_str, 1, Len(udh_str) - 4) ELSE udh_str
        base_tag == IF has_udh THEN udh_prefix \o <<"-">> \o Str(to) ELSE Str(to)
        time_suffix ==
            IF date_received.kind \in {"NaN", "NaT"} THEN <<>>
            ELSE IF date_received.kind = "Timestamp"
                 THEN time_suffix_of(date_received, FALSE)
                 ELSE LET dt == to_datetime(date_received.s) IN
                      IF dt.kind = "Timestamp" THEN time_suffix_of(dt, FALSE)
                      ELSE <<>>
    IN  base_tag \o time_suffix

\* create_tag reading the time from a text date only, not from a Timestamp
create_tag_text_dates_only(row) ==
    LET udh == row["udh"]
        to == row["to"]
        date_received == row["date_received"]
        has_udh == ~(isna(udh) \/ strip(Str(udh)) = <<>>)
        udh_str == Str(udh)
        udh_prefix ==
            IF Len(udh_str) > 4 THEN SubSeq(udh_str, 1, Len(udh_str) - 4) ELSE udh_str
        base_tag == IF has_udh THEN udh_prefix \o <<"-">> \o Str(to) ELSE Str(to)
        time_suffix ==
            IF date_received.kind \in {"NaN", "NaT"} THEN <<>>
            ELSE IF date_received.kind = "Timestamp" THEN <<>>
                 ELSE LET dt == to_datetime(date_received.s) IN
                      IF dt.kind = "Timestamp" THEN time_suffix_of(dt, has_udh)
                      ELSE <<>>
    IN  base_tag \o time_suffix

\* create_tag removing the last 2 characters of udh instead of the last 4
create_tag_prefix_drops_two(row) ==
    LET udh == row["udh"]
        to == row["to"]
        date_received == row["date_received"]
        has_udh == ~(isna(udh) \/ strip(Str(udh)) = <<>>)
        udh_str == Str(udh)
        udh_prefix ==
            IF Len(udh_str) > 4 THEN SubSeq(udh_str, 1, Len(udh_str) - 2) ELSE udh_str
        base_tag == IF has_udh THEN udh_prefix \o <<"-">> \o Str(to) ELSE Str(to)
        time_suffix ==
            IF date_received.kind \in {"NaN", "NaT"} THEN <<>>
            ELSE IF date_received.kind = "Timestamp"
                 THEN time_suffix_of(date_received, has_udh)
                 ELSE LET dt == to_datetime(date_received.s) IN
                      IF dt.kind = "Timestamp" THEN time_suffix_of(dt, has_udh)
                      ELSE <<>>
    IN  base_tag \o time_suffix

create_tag(row) ==
    LET udh == row["udh"]
        to == row["to"]
        date_received == row["date_received"]
        has_udh == ~(isna(udh) \/ strip(Str(udh)) = <<>>)
        udh_str == Str(udh)
        udh_prefix ==
            IF Len(udh_str) > 4 THEN SubSeq(udh_str, 1, Len(udh_str) - 4) ELSE udh_str
        base_tag == IF has_udh THEN udh_prefix \o <<"-">> \o Str(to) ELSE Str(to)
        time_suffix ==
            IF date_received.kind \in {"NaN", "NaT"} THEN <<>>
            ELSE IF date_received.kind = "Timestamp"
                 THEN time_suffix_of(date_received, has_udh)
                 ELSE LET dt == to_datetime(date_received.s) IN
                      IF dt.kind = "Timestamp" THEN time_suffix_of(dt, has_udh)
                      ELSE <<>>
    IN  base_tag \o time_suffix

(***************************************************************************)
(* process_csv: columns, rows and the text of the output files.            *)
(***************************************************************************)
REQUIRED_COLUMNS ==
    << "account_id", "message_id", "direction", "from", "to", "forced_from",
       "message_body", "concatenated", "network", "network_name", "country",
       "country_name", "date_received", "date_finalized", "latency", "status",
       "error_code", "error_code_description", "currency", "total_price", "udh" >>

RequiredSet == {REQUIRED_COLUMNS[i] : i \in 1..Len(REQUIRED_COLUMNS)}

\* group.columns when a group is written: the required columns, then the
\* three calculated ones (date_key is dropped at line 379)
OutputColumns == REQUIRED_COLUMNS \o <<"Tag", "Total Parts", "Part Num">>

\* the characters of a column name or of a calendar date, as they go into
\* a file
Chars(name) ==
    CASE name = "account_id" ->
          <<"a", "c", "c", "o", "u", "n", "t", "_", "i", "d">>
      [] name = "message_id" ->
          <<"m", "e", "s", "s", "a", "g", "e", "_", "i", "d">>
      [] name = "direction" ->
          <<"d", "i", "r", "e", "c", "t", "i", "o", "n">>
      [] name = "from" ->
          <<"f", "r", "o", "m">>
      [] name = "to" ->
          <<"t", "o">>
      [] name = "forced_from" ->
          <<"f", "o", "r", "c", "e", "d", "_", "f", "r", "o", "m">>
      [] name = "message_body" ->
          <<"m", "e", "s", "s", "a", "g", "e", "_", "b", "o", "d", "y">>
      [] name = "concatenated" ->
          <<"c", "o", "n", "c", "a", "t", "e", "n", "a", "t", "e", "d">>
      [] name = "network" ->
          <<"n", "e", "t", "w", "o", "r", "k">>
      [] name = "network_name" ->
          <<"n", "e", "t", "w", "o", "r", "k", "_", "n", "a", "m", "e">>
      [] name = "country" ->
          <<"c", "o", "u", "n", "t", "r", "y">>
      [] name = "country_name" ->
          <<"c", "o", "u", "n", "t", "r", "y", "_", "n", "a", "m", "e">>
      [] name = "date_received" ->
          <<"d", "a", "t", "e", "_", "r", "e", "c", "e", "i", "v", "e",
             "d">>
      [] name = "date_finalized" ->
          <<"d", "a", "t", "e", "_", "f", "i", "n", "a", "l", "i", "z",
             "e", "d">>
      [] name = "latency" ->
          <<"l", "a", "t", "e", "n", "c", "y">>
      [] name = "status" ->
          <<"s", "t", "a", "t", "u", "s">>
      [] name = "error_code" ->
          <<"e", "r", "r", "o", "r", "_", "c", "o", "d", "e">>
      [] name = "error_code_description" ->
          <<"e", "r", "r", "o", "r", "_", "c", "o", "d", "e", "_", "d",
             "e", "s", "c", "r", "i", "p", "t", "i", "o", "n">>
      [] name = "currency" ->
          <<"c", "u", "r", "r", "e", "n", "c", "y">>
      [] name = "total_price" ->
          <<"t", "o", "t", "a", "l", "_", "p", "r", "i", "c", "e">>
      [] name = "udh" ->
          <<"u", "d", "h">>
      [] name = "Tag" ->
          <<"T", "a", "g">>
      [] name = "Total Parts" ->
          <<"T", "o", "t", "a", "l", " ", "P", "a", "r", "t", "s">>
      [] name = "Part Num" ->
          <<"P", "a", "r", "t", " ", "N", "u", "m">>
      [] name = "2025-05-09" ->
          <<"2", "0", "2", "5", "-", "0", "5", "-", "0", "9">>
      [] name = "2025-05-10" ->
          <<"2", "0", "2", "5", "-", "0", "5", "-", "1", "0">>

Min(a, b) == IF a <= b THEN a ELSE b
Max(a, b) == IF a >= b THEN a ELSE b

\* lines 267-268: the required columns the header lacks
missing_columns(hdr) == {c \in RequiredSet : c \notin hdr}

(***************************************************************************)
(* Rows.  A file of 100000 rows and more is kept as a sequence of pieces:  *)
(* a piece is a row and the number n of times the row follows itself in    *)
(* the file.  A frame (chunk, df, group) is a sequence of pieces as well.  *)
(***************************************************************************)
Piece(row, n) == [row |-> row, n |-> n]

\* len() of a file's rows or of a frame
RECURSIVE row_count(_)
row_count(pieces) ==
    IF pieces = <<>> THEN 0 ELSE Head(pieces).n + row_count(Tail(pieces))

\* the rows a+1 .. b of the rows that `pieces` stand for
RECURSIVE rows_between(_, _, _)
rows_between(pieces, a, b) ==
    IF pieces = <<>> \/ b <= 0 THEN <<>>
    ELSE LET n == Head(pieces).n
             inside == Min(n, b) - Max(a, 0)
         IN  (IF inside > 0 THEN <<Piece(Head(pieces).row, inside)>> ELSE <<>>)
                \o rows_between(Tail(pieces), a - n, b - n)

(***************************************************************************)
(* pd.read_csv (line 275) is called without dtype=, so it settles the      *)
(* type of every column of a chunk from the cells of that chunk: a column  *)
(* whose cells are all whole numbers is int64, a column of whole numbers   *)
(* and empty cells is float64 (the empty cells NaN), a column without any  *)
(* filled cell is float64 too, and any other column keeps its texts.       *)
(* Every later use of a cell goes through str(), an f-string, pd.isna or   *)
(* csv.writer, so a number is kept here as the text str() gives for it:    *)
(* 0500030201 read as int64 is "500030201", read as float64 it is          *)
(* "500030201.0".  The cells of this model hold no decimal point, no       *)
(* exponent and none of the texts read_csv takes for a missing value       *)
(* (NA, nan, null, ...); numbers stay below 2^63 and below 10^16, where    *)
(* str() of a float changes to the exponent form.                          *)
(***************************************************************************)
IsDecDigits(s) == s # <<>> /\ \A i \in 1..Len(s) : s[i] \in Digits

RECURSIVE DecDigitsValue(_)
DecDigitsValue(s) ==
    IF s = <<>> THEN 0
    ELSE 10 * DecDigitsValue(SubSeq(s, 1, Len(s) - 1)) + HexDigitValue(s[Len(s)])

\* the parser takes a cell for a whole number: blanks around it are skipped,
\* one sign may come before the digits
is_integer_text(s) ==
    LET t == strip(s) IN
    IF t # <<>> /\ Head(t) \in {"+", "-"} THEN IsDecDigits(Tail(t)) ELSE IsDecDigits(t)

integer_value(s) ==
    LET t == strip(s) IN
    IF Head(t) = "-" THEN 0 - DecDigitsValue(Tail(t))
    ELSE IF Head(t) = "+" THEN DecDigitsValue(Tail(t))
    ELSE DecDigitsValue(t)

\* the dtype read_csv gives a column with these cells
infer_dtype(cells) ==
    IF \A v \in cells : isna(v) \/ is_integer_text(v)
    THEN (IF \E v \in cells : isna(v) THEN "float64" ELSE "int64")
    ELSE "object"

\* str() of a cell of a column of that dtype.  A float64 column of whole
\* numbers is parsed as int64 first and cast when the empty cell is met,
\* so -0 is 0 and then 0.0
typed_cell(dtype, v) ==
    IF isna(v) \/ dtype = "object" THEN v
    ELSE IF dtype = "int64" THEN IntStr(integer_value(v))
    ELSE IntStr(integer_value(v)) \o <<".", "0">>

\* line 275 and the iteration of line 282: the chunk as read_csv hands it
\* over, from the cells of its rows in the file (NaN for an empty cell);
\* date_received is a text or empty in every row of this model
read_csv(rows) ==
    LET dtype == [c \in DOMAIN rows[1].row \ {"date_received"} |->
                    infer_dtype({rows[i].row[c] : i \in 1..Len(rows)})]
    IN  [i \in 1..Len(rows) |->
            Piece([c \in DOMAIN rows[i].row |->
                      IF c = "date_received" THEN rows[i].row[c]
                      ELSE typed_cell(dtype[c], rows[i].row[c])],
                  rows[i].n)]

\* counts_as_unquoted without the pd.isna filter of line 302
counts_as_unquoted_with_nan(val) ==
    ~(/\ Len(Str(val)) >= 1
      /\ Str(val)[1] = QUOTE
      /\ Str(val)[Len(Str(val))] = QUOTE
      /\ Len(SelectSeq(Str(val), LAMBDA c : c = QUOTE)) = 2)

\* lines 300-303: the message bodies counted as "without quotes"
counts_as_unquoted(val) ==
    /\ ~isna(val)
    /\ ~(/\ Len(val) >= 1
         /\ val[1] = QUOTE
         /\ val[Len(val)] = QUOTE
         /\ Len(SelectSeq(val, LAMBDA c : c = QUOTE)) = 2)

\* the position of a required column in REQUIRED_COLUMNS
column_position(c) == CHOOSE k \in 1..Len(REQUIRED_COLUMNS) : REQUIRED_COLUMNS[k] = c

\* what df[col] = '' (line 294) leaves in a row of the chunk: the empty
\* text, or NaN when no earlier required column gave df its rows yet (the
\* scalar is assigned to a frame without rows, and the first column copied
\* from the chunk then brings the rows in with NaN in it)
fill_value(c, r) ==
    LET filled ==
            \E k \in 1..(column_position(c) - 1) : REQUIRED_COLUMNS[k] \in DOMAIN r
    IN  IF c = "date_received"
        THEN (IF filled THEN DateStr(<<>>) ELSE DateNaN)
        ELSE (IF filled THEN <<>> ELSE NaN)

\* select_required with the name of the exception in place of the fill
select_required_no_fill(r) ==
    [c \in RequiredSet |-> IF c \in DOMAIN r THEN r[c] ELSE <<"KeyError">>]

\* lines 288-294: the required columns of one row of the chunk, a column
\* the chunk lacks filled in
select_required(r) ==
    [c \in RequiredSet |-> IF c \in DOMAIN r THEN r[c] ELSE fill_value(c, r)]

\* lines 297-303: the count over the message_body column of df
message_bodies_without_quotes_count(chunk) ==
    row_count(SelectSeq(chunk,
                LAMBDA p : counts_as_unquoted(select_required(p.row)["message_body"])))

\* lines 306 and 315: one row of df with message_body sanitized and
\* date_received parsed
convert_row(r) ==
    [c \in RequiredSet |->
        IF c = "message_body" THEN process_message_body(select_required(r)[c])
        ELSE IF c = "date_received" THEN to_datetime_coerce(select_required(r)[c])
        ELSE select_required(r)[c]]

\* lines 327, 360, 363, 366: the calculated columns
add_columns(r) ==
    [c \in RequiredSet \cup {"Tag", "Total Parts", "Part Num", "date_key"} |->
        IF c = "Tag" THEN create_tag(r)
        ELSE IF c = "Total Parts" THEN extract_total_parts(r["udh"])
        ELSE IF c = "Part Num" THEN extract_part_num(r["udh"])
        ELSE IF c = "date_key" THEN r["date_received"].date
        ELSE r[c]]

\* lines 287-366 on one chunk: rows with an invalid date are dropped
\* (line 321) before the columns are added
chunk_frame(chunk) ==
    LET converted == [i \in 1..Len(chunk) |-> Piece(convert_row(chunk[i].row), chunk[i].n)]
        kept == SelectSeq(converted,
                          LAMBDA p : p.row["date_received"].kind = "Timestamp")
    IN  [i \in 1..Len(kept) |-> Piece(add_columns(kept[i].row), kept[i].n)]

\* date_group with the rows of a group in reverse order
date_group_reversed(df, date) ==
    LET g == SelectSeq(df, LAMBDA p : p.row["date_key"] = date) IN
    [i \in 1..Len(g) |-> g[Len(g) + 1 - i]]

\* date_group without the split: every group is the whole frame
date_group_whole_frame(df, date) == df

\* line 374: the rows of one date, in the order of the frame
date_group(df, date) == SelectSeq(df, LAMBDA p : p.row["date_key"] = date)

date_keys(df) == {df[i].row["date_key"] : i \in 1..Len(df)}

\* str(Timestamp), as csv.writer writes the date_received cell
timestamp_text(t) ==
    Chars(t.date) \o <<" ">> \o Pad2(t.hour) \o <<":">> \o Pad2(t.minute) \o <<":">>
        \o Pad2(t.second)

\* the text of one cell of a group after fillna('') (line 382)
cell_text(c, v) ==
    IF c = "date_received" THEN timestamp_text(v)
    ELSE IF v = NaN THEN <<>>
    ELSE v

RECURSIVE double_quotes(_)
double_quotes(s) ==
    IF s = <<>> THEN <<>>
    ELSE IF Head(s) = QUOTE THEN <<QUOTE, QUOTE>> \o double_quotes(Tail(s))
    ELSE <<Head(s)>> \o double_quotes(Tail(s))

\* csv.writer, QUOTE_ALL: every field quoted, embedded quotes doubled
quote_all(s) == <<QUOTE>> \o double_quotes(s) \o <<QUOTE>>

\* csv.writer's line end; the files are opened with newline='', so it
\* reaches the file as it is
lineterminator == <<"\r", "\n">>

\* csv.writer, QUOTE_MINIMAL: quoted only when the field holds a delimiter,
\* a quote or a character of the line end
quote_minimal(s) ==
    IF \E i \in 1..Len(s) : s[i] \in {QUOTE, ",", "\r", "\n"} THEN quote_all(s) ELSE s

RECURSIVE join_fields(_)
join_fields(fields) ==
    IF Len(fields) = 0 THEN <<>>
    ELSE IF Len(fields) = 1 THEN fields[1]
    ELSE fields[1] \o <<",">> \o join_fields(Tail(fields))

\* line 397: writer.writerow(group.columns)
header_line ==
    join_fields([i \in 1..Len(OutputColumns) |-> quote_minimal(Chars(OutputColumns[i]))])
        \o lineterminator

\* row_line without the drop of date_key at line 379
row_line_with_date_key(r) ==
    join_fields([i \in 1..(Len(OutputColumns) + 1) |->
                    IF i <= Len(OutputColumns)
                    THEN quote_all(cell_text(OutputColumns[i], r[OutputColumns[i]]))
                    ELSE quote_all(Chars(r["date_key"]))])
        \o lineterminator

\* row_line written with QUOTE_MINIMAL instead of QUOTE_ALL
row_line_quote_minimal(r) ==
    join_fields([i \in 1..Len(OutputColumns) |->
                    quote_minimal(cell_text(OutputColumns[i], r[OutputColumns[i]]))])
        \o lineterminator

\* line 403: writer.writerow(row.tolist())
row_line(r) ==
    join_fields([i \in 1..Len(OutputColumns) |->
                    quote_all(cell_text(OutputColumns[i], r[OutputColumns[i]]))])
        \o lineterminator

(***************************************************************************)
(* Files.  The content of a file is a sequence of runs: a run is a text    *)
(* and the number n of times the text follows itself in the file.  The     *)
(* text of a run is a whole line, line end included; only the last run of  *)
(* a file may be a line that is cut short, without its line end, and such  *)
(* a run has n = 1.                                                        *)
(***************************************************************************)
Run(text, n) == [text |-> text, n |-> n]

ends_line(text) == text # <<>> /\ text[Len(text)] = "\n"

\* lines 400-403: the content of a file opened with 'a' after the texts of
\* `runs` are written to it; a first text that follows a line cut short
\* continues that line
append_text(file, runs) ==
    IF file = <<>> \/ runs = <<>> \/ ends_line(file[Len(file)].text) THEN file \o runs
    ELSE SubSeq(file, 1, Len(file) - 1)
            \o <<Run(file[Len(file)].text \o runs[1].text, 1)>>
            \o (IF runs[1].n > 1 THEN <<Run(runs[1].text, runs[1].n - 1)>> ELSE <<>>)
            \o Tail(runs)

\* lines 402-403: the lines of the rows of a group
group_lines(group) == [i \in 1..Len(group) |-> Run(row_line(group[i].row), group[i].n)]

\* line 94: file.read() of a file opened without newline=: every line end
\* (\r\n, \r or \n) is handed over as \n
universal_newlines(text) ==
    LET marked == [i \in 1..Len(text) |->
                      IF text[i] # "\r" THEN text[i]
                      ELSE IF i < Len(text) /\ text[i + 1] = "\n" THEN "skip"
                      ELSE "\n"]
    IN  SelectSeq(marked, LAMBDA c : c # "skip")

\* line 98: content.replace('"""', '"'), matches taken left to right
TripleAt(s, i) == i + 2 <= Len(s) /\ s[i] = QUOTE /\ s[i + 1] = QUOTE /\ s[i + 2] = QUOTE

RECURSIVE replace_triple_quotes(_)
replace_triple_quotes(s) ==
    LET matches == {i \in 1..Len(s) : TripleAt(s, i)} IN
    IF matches = {} THEN s
    ELSE LET first == CHOOSE i \in matches : \A j \in matches : i <= j IN
         SubSeq(s, 1, first - 1) \o <<QUOTE>>
            \o replace_triple_quotes(SubSeq(s, first + 3, Len(s)))

\* lines 94-102 on a whole file: read with every line end as \n, replaced,
\* and written back, \n written as os.linesep, which is \n where the
\* program runs.  Every text that is followed by another one ends with a
\* line end, so no match of the replacement spans two texts
fix_triple_quotes(file) ==
    [i \in 1..Len(file) |->
        Run(replace_triple_quotes(universal_newlines(file[i].text)), file[i].n)]

\* write_date_group writing the header on every write
write_date_group_header_always(dir, date, group) ==
    LET file_exists == date \in DOMAIN dir
        opened == IF file_exists THEN append_text(dir[date], <<Run(header_line, 1)>>)
                  ELSE <<Run(header_line, 1)>>
        appended == append_text(opened, group_lines(group))
    IN  fix_triple_quotes(appended)

\* lines 389-406: the content of the file of `date` after one group is
\* written: header on creation, rows appended, then the quote fix
write_date_group(dir, date, group) ==
    LET file_exists == date \in DOMAIN dir
        opened == IF file_exists THEN dir[date] ELSE <<Run(header_line, 1)>>
        appended == append_text(opened, group_lines(group))
    IN  fix_triple_quotes(appended)

\* lines 377-406 for every date group of the frame
write_groups(dir, df) ==
    [d \in DOMAIN dir \cup date_keys(df) |->
        IF d \in date_keys(df) THEN write_date_group(dir, d, date_group(df, d))
        ELSE dir[d]]

\* count_files_created assigning the count of the group instead of adding it
count_files_created_overwrite(files_created, df) ==
    [d \in DOMAIN files_created \cup date_keys(df) |->
        IF d \in date_keys(df) THEN row_count(date_group(df, d)) ELSE files_created[d]]

\* lines 409-412
count_files_created(files_created, df) ==
    [d \in DOMAIN files_created \cup date_keys(df) |->
        IF d \in date_keys(df)
        THEN (IF d \in DOMAIN files_created THEN files_created[d] ELSE 0)
                + row_count(date_group(df, d))
        ELSE files_created[d]]

EmptyDir == [d \in {} |-> <<>>]
NoCounts == [d \in {} |-> 0]

\* lines 278-280
InitialStats ==
    [total_rows_processed |-> 0, files_created |-> NoCounts, message_bodies_quoted |-> 0]

\* what process_csv returns: None, or the dictionary of lines 445-451
\* (without the elapsed time and the file sizes)
ResultValue(kind, total_rows, files_created, message_bodies_quoted) ==
    [kind |-> kind, total_rows |-> total_rows, files_created |-> files_created,
     message_bodies_quoted |-> message_bodies_quoted]
Running == ResultValue("running", 0, 0, 0)
ReturnNone == ResultValue("None", 0, 0, 0)
ReturnStats(st) ==
    ResultValue("stats", st.total_rows_processed,
                Cardinality(DOMAIN st.files_created), st.message_bodies_quoted)

(***************************************************************************)
(* process_csv as a state machine: the schema check, one step per chunk    *)
(* read, and the return of the summary.  The input file exists; its rows   *)
(* are the cells of the file after CSV unquoting: an empty cell is NaN,    *)
(* any other cell its text.  read_csv types them chunk by chunk.           *)
(***************************************************************************)
\* line 273
chunk_size == 100000
\* pieces per input file
MaxInputPieces == 3
\* length of the free-text cells of the one-row inputs
MaxCellLen == 3

Row(from, to, body, date, udh) ==
    [c \in RequiredSet |->
        IF c = "from" THEN from
        ELSE IF c = "to" THEN to
        ELSE IF c = "message_body" THEN body
        ELSE IF c = "date_received" THEN date
        ELSE IF c = "udh" THEN udh
        ELSE IF c = "forced_from" THEN NaN
        ELSE <<"x">>]

IsoText(date, h1, h2, m1, m2, s1, s2) ==
    DateStr(<<date, "T", h1, h2, ":", m1, m2, ":", s1, s2>>)

\* the row that the long files repeat
PlainRow ==
    Row(<<"x">>, <<"9", "8">>, <<"h", QUOTE, "i">>,
        IsoText("2025-05-09", "1", "4", "0", "7", "3", "3"), NaN)

Rows ==
    { PlainRow,
      Row(<<QUOTE, "x">>, <<"9", "8">>, <<QUOTE, "h", QUOTE>>,
          IsoText("2025-05-09", "0", "9", "0", "5", "0", "0"),
          <<"0", "5", "0", "0", "0", "3", "0", "2", "0", "1">>),
      Row(<<QUOTE, ",", QUOTE>>, <<"7">>, <<"h", ",", QUOTE>>,
          IsoText("2025-05-10", "0", "0", "0", "0", "5", "9"), <<"0", "3", "A", "1">>),
      Row(<<"x">>, <<"9", "8">>, <<QUOTE>>, DateStr(<<"Z">>), NaN),
      Row(<<QUOTE, QUOTE, "x">>, NaN, NaN,
          IsoText("2025-05-10", "0", "0", "0", "0", "0", "0"), <<"A", "1">>) }

\* what the input files are made of: each row once, and one full chunk of
\* PlainRow
InputPieces == {Piece(r, 1) : r \in Rows} \cup {Piece(PlainRow, chunk_size)}

\* a cell is never the empty text: pd.read_csv reads an empty cell as NaN
Cells(S, n) == {NaN} \cup (SeqsUpTo(S, n) \ {<<>>})

\* rows with quotes and commas in the sender and the recipient, and rows
\* with them in the body
WideRows ==
    { Row(f, t, <<"a">>, IsoText("2025-05-09", "1", "4", "0", "7", "3", "3"), NaN) :
        f \in Cells({"x", QUOTE, ","}, MaxCellLen), t \in {NaN, <<QUOTE>>} }
    \cup
    { Row(<<"x">>, t, b, IsoText("2025-05-09", "1", "4", "0", "7", "3", "3"), NaN) :
        t \in {NaN, <<QUOTE>>}, b \in Cells({"a", QUOTE, ","}, 2) }

\* a row whose recipient, body and date are empty
EmptyDateRow == Row(<<"x">>, NaN, NaN, DateNaN, NaN)

\* a row whose udh is a blank
BlankUdhRow ==
    Row(<<"x">>, <<"9", "8">>, <<"h", "i">>,
        IsoText("2025-05-09", "2", "3", "5", "9", "5", "8"), <<" ">>)

Inputs ==
    SeqsUpTo(InputPieces, MaxInputPieces)
        \cup {<<Piece(w, 1)>> : w \in WideRows} \cup {<<Piece(BlankUdhRow, 1)>>}
        \cup { <<Piece(EmptyDateRow, 1)>>,
               <<Piece(EmptyDateRow, 1), Piece(PlainRow, 1)>>,
               <<Piece(PlainRow, 1), Piece(EmptyDateRow, 1)>> }

\* a header with every required column and one more, and headers that lack
\* required columns
FullHeader == RequiredSet \cup {"client_ref"}
ShortHeaders == {RequiredSet \ {"udh"}, RequiredSet \ {"message_body", "to"}}

\* the directory an earlier run on a one-row file left behind
PreviousInput ==
    << Piece(Row(<<QUOTE, "x">>, <<"9", "8">>, <<"h", "i">>,
                 IsoText("2025-05-09", "0", "8", "0", "0", "0", "0"), NaN), 1) >>
PreviousDir == write_groups(EmptyDir, chunk_frame(read_csv(PreviousInput)))

NoCall == [fn |-> "none", arg |-> <<>>]

\* Python's None where an object is expected
None == [kind |-> "None"]

\* process_all_subaccounts: results as line 118 creates it
EmptyResults == [success |-> <<>>, failed |-> <<>>]

\* Neither suspend_account.py nor a web application is running.
ToolsIdle ==
    /\ AUTH_TOKEN = ""
    /\ SUB_API_KEYS = <<>>
    /\ key_index = 0
    /\ results = EmptyResults
    /\ upstream = <<>>
    /\ app = "none"
    /\ api_client = None
    /\ credentials_file = None
    /\ user_sessions = [u \in {} |-> None]

Init ==
    /\ pc = "start"
    /\ \/ header = FullHeader /\ input \in Inputs
       \/ header \in ShortHeaders /\ input \in SeqsUpTo(InputPieces, 1)
    /\ pos = 0
    /\ prior \in {EmptyDir, PreviousDir}
    /\ files = prior
    /\ stats = InitialStats
    /\ result = Running
    /\ groups_written = 0
    /\ call = NoCall
    /\ ret = Pending
    /\ ToolsIdle

\* CheckSchema without the return of line 270
CheckSchema_no_return ==
    /\ pc = "start"
    /\ pc' = "chunks"
    /\ UNCHANGED <<header, input, pos, prior, files, stats, result,
                   groups_written, fnvars, toolvars>>

\* lines 261-270: the header is read and checked once, before any chunk
CheckSchema ==
    /\ pc = "start"
    /\ IF missing_columns(header) # {}
       THEN pc' = "done" /\ result' = ReturnNone
       ELSE pc' = "chunks" /\ result' = result
    /\ UNCHANGED <<header, input, pos, prior, files, stats, groups_written, fnvars, toolvars>>

\* line 282: the rows of the chunk that is read next, and the number of
\* rows read after it
next_chunk == rows_between(input, pos, pos + chunk_size)
pos_after_chunk == Min(pos + chunk_size, row_count(input))

\* lines 307-414: the counters after the chunk is written
stats_after(chunk, df) ==
    [total_rows_processed |-> stats.total_rows_processed + row_count(df),
     files_created |-> count_files_created(stats.files_created, df),
     message_bodies_quoted |->
        stats.message_bodies_quoted + message_bodies_without_quotes_count(chunk)]

\* ProcessChunk with pd.to_datetime raising on a text that does not parse
\* (no errors='coerce'): the exception ends the run
ProcessChunk_no_coerce ==
    /\ pc = "chunks"
    /\ pos < row_count(input)
    /\ LET chunk == read_csv(next_chunk)
           df == chunk_frame(chunk)
       IN  IF \E i \in 1..Len(chunk) :
                to_datetime_coerce(chunk[i].row["date_received"]).kind # "Timestamp"
           THEN /\ pc' = "done" /\ result' = ReturnNone
                /\ UNCHANGED <<files, stats, pos>>
           ELSE /\ files' = write_groups(files, df)
                /\ stats' = stats_after(chunk, df)
                /\ pos' = pos_after_chunk
                /\ UNCHANGED <<pc, result>>
    /\ UNCHANGED <<header, input, prior, groups_written, fnvars, toolvars>>

\* lines 282-418: one chunk is read, transformed and written
ProcessChunk ==
    /\ pc = "chunks"
    /\ pos < row_count(input)
    /\ LET chunk == read_csv(next_chunk)
           df == chunk_frame(chunk)
       IN  /\ files' = write_groups(files, df)
           /\ stats' = stats_after(chunk, df)
           /\ pos' = pos_after_chunk
    /\ UNCHANGED <<pc, header, input, prior, result, groups_written, fnvars, toolvars>>

\* lines 423-451: the chunks are exhausted and the summary is returned
Finish ==
    /\ pc = "chunks"
    /\ pos = row_count(input)
    /\ pc' = "done"
    /\ result' = ReturnStats(stats)
    /\ UNCHANGED <<header, input, pos, prior, files, stats, groups_written, fnvars, toolvars>>

Next == CheckSchema \/ ProcessChunk \/ Finish

Spec == Init /\ [][Next]_vars

(***************************************************************************)
(* process_csv with failures.  While a chunk is read or written an         *)
(* exception may be raised (pd.read_csv on a malformed line, open or write *)
(* on an output file); raised in process_csv it reaches the handler of     *)
(* lines 419-421, which ends the run; raised in fix_triple_quotes it is    *)
(* caught there (lines 103-105) and the run goes on.  A write that the     *)
(* operating system stops (no space left, file size limit) stops at any    *)
(* character, not at a line end.                                           *)
(***************************************************************************)
\* the dates of the frame in the order groupby yields them
SortedDates == <<"2025-05-09", "2025-05-10">>
group_order(df) == SelectSeq(SortedDates, LAMBDA d : d \in date_keys(df))

\* the number of whole copies of a text of n copies that a write is cut
\* after: any number short of all
whole_copies(n) == 0..(n - 1)

\* what reaches the file when the write of `runs` is cut: the texts before
\* the one that is cut, `copies` whole copies of it and its first `chars`
\* characters
cut_at(runs, i, copies, chars) ==
    SubSeq(runs, 1, i - 1)
        \o (IF copies > 0 THEN <<Run(runs[i].text, copies)>> ELSE <<>>)
        \o (IF chars > 0 THEN <<Run(SubSeq(runs[i].text, 1, chars), 1)>> ELSE <<>>)

\* every content short of the whole that a write of `runs` may leave
cut_texts(runs) ==
    UNION { { cut_at(runs, i, copies, chars) :
                copies \in whole_copies(runs[i].n),
                chars \in 0..(Len(runs[i].text) - 1) } : i \in 1..Len(runs) }

\* lines 394-403 interrupted: the contents the file of `date` may hold when
\* the write of the header (line 397, flushed when the `with` block closes
\* the file) or open(filepath, 'a') or the write of the rows (line 403) is
\* stopped: a new file with the header cut short, or the file as it was
\* opened (with its header if it is new) and the lines of the group cut
\* short; fix_triple_quotes (line 406) has not run on them
write_date_group_interrupted(dir, date, group) ==
    LET file_exists == date \in DOMAIN dir
        opened == IF file_exists THEN dir[date] ELSE <<Run(header_line, 1)>>
    IN  (IF file_exists THEN {} ELSE cut_texts(<<Run(header_line, 1)>>))
            \cup {append_text(opened, written) : written \in cut_texts(group_lines(group))}

\* the directories when the writing of the group of `date` is interrupted
write_interrupted(dir, df, date) ==
    { [d \in DOMAIN dir \cup {date} |-> IF d = date THEN content ELSE dir[d]] :
        content \in write_date_group_interrupted(dir, date, date_group(df, date)) }

\* lines 90-105 failing on the file of `date`: the contents the file may
\* hold after the rows of the group are appended and fix_triple_quotes
\* runs into an exception: the appended file as it is (open or read
\* failed), or, once open(file_path, 'w') has emptied the file, the
\* rewritten content cut short
fix_triple_quotes_failed(dir, date, group) ==
    LET file_exists == date \in DOMAIN dir
        opened == IF file_exists THEN dir[date] ELSE <<Run(header_line, 1)>>
        appended == append_text(opened, group_lines(group))
    IN  {appended} \cup cut_texts(fix_triple_quotes(appended))

\* the frame of the chunk in hand (lines 282-374) and its dates in the
\* order of the loop of line 377
current_frame == chunk_frame(read_csv(next_chunk))
current_order == group_order(current_frame)

\* the directory with the file of `date` holding `content`
with_file(dir, date, content) ==
    [d \in DOMAIN dir \cup {date} |-> IF d = date THEN content ELSE dir[d]]

\* lines 250-262: an exception before the columns are checked
\* (os.path.getsize, pd.read_csv of the header)
RaiseAtStart ==
    /\ pc = "start"
    /\ pc' = "except"
    /\ UNCHANGED <<header, input, pos, prior, files, stats, result, groups_written,
                   fnvars, toolvars>>

\* lines 282-376: the next chunk is read and transformed and the count of
\* line 307 is added
ReadChunk ==
    /\ pc = "chunks"
    /\ pos < row_count(input)
    /\ pc' = "groups"
    /\ stats' = [stats EXCEPT !.message_bodies_quoted =
                    @ + message_bodies_without_quotes_count(read_csv(next_chunk))]
    /\ UNCHANGED <<header, input, pos, prior, files, result, groups_written,
                   fnvars, toolvars>>

\* lines 377-412 for the next date group of the chunk: rows appended, file
\* rewritten by fix_triple_quotes, rows counted
WriteGroup ==
    /\ pc = "groups"
    /\ groups_written < Len(current_order)
    /\ LET date == current_order[groups_written + 1]
           group == date_group(current_frame, date)
       IN  /\ files' = with_file(files, date, write_date_group(files, date, group))
           /\ stats' = [stats EXCEPT !.files_created = count_files_created(@, group)]
    /\ groups_written' = groups_written + 1
    /\ UNCHANGED <<pc, header, input, pos, prior, result, fnvars, toolvars>>

\* lines 377-412 for the next date group with an exception inside
\* fix_triple_quotes: it is caught at line 103, False comes back and line
\* 406 ignores it, so the group is counted and the loop goes on
FixTripleQuotesFails ==
    /\ pc = "groups"
    /\ groups_written < Len(current_order)
    /\ LET date == current_order[groups_written + 1]
           group == date_group(current_frame, date)
       IN  /\ stats' = [stats EXCEPT !.files_created = count_files_created(@, group)]
           /\ \E content \in fix_triple_quotes_failed(files, date, group) :
                files' = with_file(files, date, content)
    /\ groups_written' = groups_written + 1
    /\ UNCHANGED <<pc, header, input, pos, prior, result, fnvars, toolvars>>

\* lines 414-416: every group of the chunk is written; its rows are added
\* to the total and the loop of line 282 goes on
EndChunk ==
    /\ pc = "groups"
    /\ groups_written = Len(current_order)
    /\ pc' = "chunks"
    /\ groups_written' = 0
    /\ pos' = pos_after_chunk
    /\ stats' = [stats EXCEPT !.total_rows_processed = @ + row_count(current_frame)]
    /\ UNCHANGED <<header, input, prior, files, result, fnvars, toolvars>>

\* lines 275-414 interrupted by an exception that reaches line 419.  At
\* line 275 or 282 (the reader is opened, or asked for a chunk, the one
\* after the last included) nothing has changed.  Inside a chunk the count
\* of line 307 is added and the groups written so far are counted; the
\* exception comes before the first group (lines 308-376), before the file
\* of the next group is touched, or while that file is written (lines
\* 394-403), before fix_triple_quotes runs on it and before its count is
\* recorded.  Line 414 is not reached.
RaiseInChunk ==
    /\ \/ pc = "chunks" /\ UNCHANGED files
       \/ /\ pc = "groups"
          /\ groups_written = 0 \/ groups_written < Len(current_order)
          /\ UNCHANGED files
       \/ /\ pc = "groups"
          /\ groups_written < Len(current_order)
          /\ files' \in write_interrupted(files, current_frame,
                                          current_order[groups_written + 1])
    /\ pc' = "except"
    /\ UNCHANGED <<header, input, pos, prior, stats, result, groups_written,
                   fnvars, toolvars>>

HandleException_continue ==
    /\ pc = "except"
    /\ pc' = "chunks"
    /\ pos' = pos_after_chunk
    /\ groups_written' = 0
    /\ UNCHANGED <<header, input, prior, files, stats, result, fnvars, toolvars>>

\* lines 419-421: the exception is logged and process_csv returns None
HandleException ==
    /\ pc = "except"
    /\ pc' = "done"
    /\ result' = ReturnNone
    /\ UNCHANGED <<header, input, pos, prior, files, stats, groups_written, fnvars, toolvars>>

\* lines 472-479 of main: `if stats:` reports success, else failure
main_reports(stats_returned) ==
    IF stats_returned.kind = "stats" THEN "completed successfully" ELSE "failed"

\* the files of the runs with failures: rows of one date, with and without
\* a run of five quotes, a row repeated five times, and a file of three
\* chunks whose first chunk alone has a row to write (the other rows have a
\* date that does not parse)
FiveQuoteRow == CHOOSE r \in Rows : r["from"] = <<QUOTE, QUOTE, "x">>
InvalidDateRow == CHOOSE r \in Rows : r["date_received"] = DateStr(<<"Z">>)
RepeatedRows == 5
FailureInputs ==
    LET one == Piece(PlainRow, 1)
        quotes == Piece(FiveQuoteRow, 1)
        repeated == Piece(PlainRow, RepeatedRows)
        dropped == Piece(InvalidDateRow, chunk_size)
    IN  { <<>>, <<one>>, <<quotes>>, <<repeated>>,
          <<one, dropped, dropped, Piece(InvalidDateRow, 1)>> }

InitExc ==
    /\ pc = "start"
    /\ \/ header = FullHeader /\ input \in FailureInputs
       \/ header \in ShortHeaders /\ input = <<>>
    /\ pos = 0
    /\ prior \in {EmptyDir, PreviousDir}
    /\ files = prior
    /\ stats = InitialStats
    /\ result = Running
    /\ groups_written = 0
    /\ call = NoCall
    /\ ret = Pending
    /\ ToolsIdle

NextExc ==
    CheckSchema \/ ReadChunk \/ WriteGroup \/ EndChunk \/ Finish
        \/ RaiseAtStart \/ RaiseInChunk \/ FixTripleQuotesFails \/ HandleException

SpecExc == InitExc /\ [][NextExc]_vars

\* the runs with failures of a file with rows of two dates in one chunk,
\* on the empty directory: the two files fail and are cut independently
TwoDateInput == <<Piece(PlainRow, 1), Piece(FiveQuoteRow, 1)>>
InitExcTwoDates ==
    /\ pc = "start"
    /\ header = FullHeader
    /\ input = TwoDateInput
    /\ pos = 0
    /\ prior = EmptyDir
    /\ files = prior
    /\ stats = InitialStats
    /\ result = Running
    /\ groups_written = 0
    /\ call = NoCall
    /\ ret = Pending
    /\ ToolsIdle

SpecExcTwoDates == InitExcTwoDates /\ [][NextExc]_vars

(***************************************************************************)
(* process_csv on a file whose header changes between the two reads: the   *)
(* header checked at lines 262-270 is complete, the reader opened at line  *)
(* 275 sees a header that lacks required columns, so every chunk lacks     *)
(* them.                                                                   *)
(***************************************************************************)
\* the sets of columns the chunks may lack
DriftColumnSets ==
    { {"udh"}, {"to"}, {"message_body"}, {"date_received"}, {"account_id"},
      {"account_id", "message_id", "direction", "from", "to"} }

\* a row without the columns of D
without_columns(r, D) == [c \in (DOMAIN r) \ D |-> r[c]]

\* the rows the drifting files are made of: those with a recipient
DriftRows == {r \in Rows : ~isna(r["to"])}
DriftPieces == {Piece(r, 1) : r \in DriftRows} \cup {Piece(PlainRow, chunk_size)}

DriftInputs ==
    { [i \in 1..Len(rows) |-> Piece(without_columns(rows[i].row, D), rows[i].n)] :
        rows \in SeqsUpTo(DriftPieces, MaxInputPieces) \ {<<>>}, D \in DriftColumnSets }

InitDrift ==
    /\ pc = "start"
    /\ header = FullHeader
    /\ input \in DriftInputs
    /\ pos = 0
    /\ prior \in {EmptyDir, PreviousDir}
    /\ files = prior
    /\ stats = InitialStats
    /\ result = Running
    /\ groups_written = 0
    /\ call = NoCall
    /\ ret = Pending
    /\ ToolsIdle

SpecDrift == InitDrift /\ [][Next]_vars

(***************************************************************************)
(* The helper functions applied to bounded inputs: one call per behaviour. *)
(***************************************************************************)

HexAlphabet == {"0", "1", "A", "f", "Z", " ", ".", "-"}
HexInputs == {NaN} \cup SeqsUpTo(HexAlphabet, MaxHexLen)

BodyAlphabet == {"a", QUOTE, " ", ","}
BodyInputs == {NaN} \cup SeqsUpTo(BodyAlphabet, MaxBodyLen)

UdhAlphabet == {"0", "3", "A", "Z", " ", "."}
\* the udh, recipient and time of the worked example
ExampleUdh == <<"0", "5", "0", "0", "0", "3", "0", "2", "0", "1">>
ExampleTo == <<"1", "2", "3", "4", "5">>
ExampleDates ==
    { Timestamp("2025-05-09", 14, 7, 33),
      DateStr(<<"2025-05-09", "T", "1", "4", ":", "0", "7", ":", "3", "3">>) }

UdhInputs == {NaN} \cup SeqsUpTo(UdhAlphabet, MaxUdhLen) \cup {ExampleUdh}

MaxNameLen == 5
NameAlphabet == {"a", "b", "_", "."}
NameInputs == SeqsUpTo(NameAlphabet, MaxNameLen) \ {<<>>}

TagUdhInputs == {NaN} \cup SeqsUpTo({"0", "A", " "}, MaxUdhLen)
TagToInputs == {NaN, <<>>, <<"9", "8">>}
TagDateInputs ==
    { DateNaN, NaT,
      Timestamp("2025-05-09", 14, 7, 33),
      Timestamp("2025-05-10", 0, 5, 9),
      DateStr(<<"2025-05-09", "T", "1", "4", ":", "0", "7", ":", "3", "3">>),
      DateStr(<<"2025-05-09", "T", "2", "5", ":", "0", "7", ":", "3", "3">>),
      DateStr(<<"Z">>),
      DateStr(<<>>) }
TagInputs ==
    { [udh |-> u, to |-> t, date_received |-> d] :
        u \in TagUdhInputs, t \in TagToInputs, d \in TagDateInputs }
    \cup { [udh |-> ExampleUdh, to |-> ExampleTo, date_received |-> d] :
                d \in ExampleDates }

\* The run of process_csv at rest, for the behaviours that only call helpers.
RunIdle ==
    /\ pc = "idle"
    /\ header = {}
    /\ input = <<>>
    /\ pos = 0
    /\ prior = EmptyDir
    /\ files = EmptyDir
    /\ stats = InitialStats
    /\ result = Running
    /\ groups_written = 0

InitFn ==
    /\ \/ \E v \in HexInputs : call = [fn |-> "hex_to_dec", arg |-> v]
       \/ \E v \in BodyInputs : call = [fn |-> "process_message_body", arg |-> v]
       \/ \E v \in UdhInputs : call = [fn |-> "extract_total_parts", arg |-> v]
       \/ \E v \in UdhInputs : call = [fn |-> "extract_part_num", arg |-> v]
       \/ \E v \in TagInputs : call = [fn |-> "create_tag", arg |-> v]
       \/ \E v \in NameInputs : call = [fn |-> "api_key", arg |-> v]
    /\ ret = Pending
    /\ ToolsIdle
    /\ RunIdle

Call_hex_to_dec ==
    /\ call.fn = "hex_to_dec" /\ ret = Pending
    /\ ret' = hex_to_dec(call.arg)
    /\ UNCHANGED <<call, runvars, toolvars>>

Call_process_message_body ==
    /\ call.fn = "process_message_body" /\ ret = Pending
    /\ ret' = process_message_body(call.arg)
    /\ UNCHANGED <<call, runvars, toolvars>>

Call_extract_total_parts ==
    /\ call.fn = "extract_total_parts" /\ ret = Pending
    /\ ret' = extract_total_parts(call.arg)
    /\ UNCHANGED <<call, runvars, toolvars>>

Call_extract_part_num ==
    /\ call.fn = "extract_part_num" /\ ret = Pending
    /\ ret' = extract_part_num(call.arg)
    /\ UNCHANGED <<call, runvars, toolvars>>

Call_create_tag ==
    /\ call.fn = "create_tag" /\ ret = Pending
    /\ ret' = create_tag(call.arg)
    /\ UNCHANGED <<call, runvars, toolvars>>

Call_api_key ==
    /\ call.fn = "api_key" /\ ret = Pending
    /\ ret' = api_key(call.arg)
    /\ UNCHANGED <<call, runvars, toolvars>>

NextFn ==
    \/ Call_hex_to_dec
    \/ Call_process_message_body
    \/ Call_extract_total_parts
    \/ Call_extract_part_num
    \/ Call_create_tag
    \/ Call_api_key

SpecFn == InitFn /\ [][NextFn]_vars

(***************************************************************************)
(* lvmh/suspend_account.py: one run of process_all_subaccounts.            *)
(***************************************************************************)
MaxKeys == 3

\* the keys and tokens the script is configured with
SubKeys == {"effd325e", "d8793555"}
AuthTokens == {"", "MzViYTYyZjQ6MzBiMzlmNGI3ODJmNmZjNA=="}

BASE_URL == "https://api.nexmo.com/accounts/35ba62f4/subaccounts"
PAYLOAD == [suspended |-> TRUE]

\* a key that a dictionary does not hold
Absent == <<"absent">>

\* what requests.patch may do: answer with a status code, or raise a
\* RequestException (timeout, connection error)
StatusCodes == {200, 299, 300, 404}
PatchOutcomes ==
    {[kind |-> "response", status_code |-> s, error |-> Absent] : s \in StatusCodes}
    \cup {[kind |-> "RequestException", status_code |-> 0, error |-> <<"timed out">>]}

\* the request that suspend_subaccount sends for a key
PatchRequest(sub_api_key, outcome) ==
    [method |-> "PATCH", url |-> <<BASE_URL, sub_api_key>>, auth |-> AUTH_TOKEN,
     json |-> PAYLOAD, outcome |-> outcome.kind]

check_auth_token == AUTH_TOKEN # ""

\* the dictionary suspend_subaccount returns; status_code 0 stands for None
suspend_subaccount(sub_api_key, outcome) ==
    IF outcome.kind = "response"
    THEN [status_code |-> outcome.status_code,
          success |-> 200 <= outcome.status_code /\ outcome.status_code < 300,
          error |-> Absent]
    ELSE [status_code |-> 0, success |-> FALSE, error |-> outcome.error]

\* result.get("error", f"HTTP {result['status_code']}")
error_msg(suspended) ==
    IF suspended.error # Absent THEN suspended.error
    ELSE <<"HTTP ">> \o IntStr(suspended.status_code)

\* lines 113-121: the token is checked, then the lists are created
StartSuspend ==
    /\ pc = "check_auth_token"
    /\ IF check_auth_token
       THEN pc' = "loop" /\ results' = EmptyResults
       ELSE pc' = "exit 1" /\ results' = results
    /\ UNCHANGED <<AUTH_TOKEN, SUB_API_KEYS, key_index, upstream, webvars, csvvars,
                   fnvars>>

\* the body of the loop, with a break after a failed request
SuspendNext_stops_on_failure ==
    /\ pc = "loop"
    /\ key_index < Len(SUB_API_KEYS)
    /\ \E outcome \in PatchOutcomes :
        LET sub_key == SUB_API_KEYS[key_index + 1]
            suspended == suspend_subaccount(sub_key, outcome)
        IN  /\ upstream' = Append(upstream, PatchRequest(sub_key, outcome))
            /\ IF suspended.success
               THEN /\ results' = [results EXCEPT !.success = Append(@, sub_key)]
                    /\ pc' = pc
               ELSE /\ results' = [results EXCEPT
                            !.failed = Append(@, <<sub_key, error_msg(suspended)>>)]
                    /\ pc' = "done"
    /\ key_index' = key_index + 1
    /\ UNCHANGED <<AUTH_TOKEN, SUB_API_KEYS, webvars, csvvars, fnvars>>

\* lines 123-145: the body of the loop for the next key
SuspendNext ==
    /\ pc = "loop"
    /\ key_index < Len(SUB_API_KEYS)
    /\ \E outcome \in PatchOutcomes :
        LET sub_key == SUB_API_KEYS[key_index + 1]
            suspended == suspend_subaccount(sub_key, outcome)
        IN  /\ upstream' = Append(upstream, PatchRequest(sub_key, outcome))
            /\ IF suspended.success
               THEN results' = [results EXCEPT !.success = Append(@, sub_key)]
               ELSE results' = [results EXCEPT
                        !.failed = Append(@, <<sub_key, error_msg(suspended)>>)]
    /\ key_index' = key_index + 1
    /\ pc' = pc
    /\ UNCHANGED <<AUTH_TOKEN, SUB_API_KEYS, webvars, csvvars, fnvars>>

\* lines 147-160: the list is exhausted, the summary is printed
FinishSuspend ==
    /\ pc = "loop"
    /\ key_index = Len(SUB_API_KEYS)
    /\ pc' = "done"
    /\ UNCHANGED <<toolvars, csvvars, fnvars>>

\* the pipeline of process_csv at rest
CsvIdle ==
    /\ header = {}
    /\ input = <<>>
    /\ pos = 0
    /\ prior = EmptyDir
    /\ files = EmptyDir
    /\ stats = InitialStats
    /\ result = Running
    /\ groups_written = 0

InitSuspend ==
    /\ pc = "check_auth_token"
    /\ AUTH_TOKEN \in AuthTokens
    /\ SUB_API_KEYS \in SeqsUpTo(SubKeys, MaxKeys)
    /\ key_index = 0
    /\ results = EmptyResults
    /\ upstream = <<>>
    /\ app = "none"
    /\ api_client = None
    /\ credentials_file = None
    /\ user_sessions = [u \in {} |-> None]
    /\ CsvIdle
    /\ call = NoCall
    /\ ret = Pending

NextSuspend == StartSuspend \/ SuspendNext \/ FinishSuspend

SpecSuspend == InitSuspend /\ [][NextSuspend]_vars

(***************************************************************************)
(* number_management_tool: the web applications main.py and render_main.py.*)
(* One action per endpoint; call is the request served last, ret its       *)
(* response, upstream the requests it sent to the Vonage API.              *)
(***************************************************************************)
MaxNumbers == 2

\* Python's None where a string is expected
NoneStr == "None"

\* the credentials a CredentialsRequest may carry
ApiCredentials ==
    { [api_key |-> "key1", api_secret |-> "secret1"],
      [api_key |-> "", api_secret |-> ""] }

ConnectRequests ==
    { [api_key |-> c.api_key, api_secret |-> c.api_secret, save_credentials |-> s] :
        c \in ApiCredentials, s \in BOOLEAN }

\* VonageNumbersAPIClient() followed by set_credentials(api_key, api_secret)
VonageNumbersAPIClient(key, secret) ==
    [kind |-> "VonageNumbersAPIClient", api_key |-> key,
     api_secret |-> secret, auth_header |-> <<"Basic", key, secret>>]

\* what the Vonage API may do with a request: answer 200 with a JSON object,
\* answer 200 with JSON that is no object, or fail (another status, a
\* timeout, a connection error, a body that is no JSON)
GetOutcomes == {"ok", "ok_not_object", "error"}
PostOutcomes == {"ok", "error"}

\* a request sent to the Vonage API
Sent(client, method, endpoint, data, outcome) ==
    [method |-> method, endpoint |-> endpoint, auth |-> client.auth_header,
     data |-> data, outcome |-> outcome]

\* the dictionary _make_request, buy_number and cancel_number return
api_result(outcome) ==
    [success |-> outcome # "error",
     error |-> IF outcome = "error" THEN "API Error" ELSE NoneStr]

\* the responses of FastAPI
HTTPException(status_code, detail) ==
    [status_code |-> status_code, detail |-> detail, body |-> None]
JSONResponse(body) == [status_code |-> 200, detail |-> "", body |-> body]
Body(success, data, error) == [success |-> success, data |-> data, error |-> error]

\* the entries of request.numbers
NumberEntries ==
    { [country |-> "GB", msisdn |-> "447700900000"],
      [country |-> "US", msisdn |-> "12025550100"],
      [country |-> "", msisdn |-> "447700900000"],
      [country |-> "GB"] }
NumberLists == SeqsUpTo(NumberEntries, MaxNumbers)
\* purchases for the account itself, and purchases of at most one number
\* for a subaccount
PurchaseRequests ==
    { [numbers |-> n, target_api_key |-> NoneStr] : n \in NumberLists }
    \cup { [numbers |-> n, target_api_key |-> "sub1"] : n \in SeqsUpTo(NumberEntries, 1) }
CancelRequests == { [numbers |-> n, target_api_key |-> NoneStr] : n \in NumberLists }
SearchRequests == { [country |-> "gb"] }

\* dict.get(key, default)
dict_get(d, key, default) == IF key \in DOMAIN d THEN d[key] ELSE default

\* `if country and msisdn`
country_and_msisdn(number) ==
    dict_get(number, "country", "") # "" /\ dict_get(number, "msisdn", "") # ""

\* the outcomes of the requests a list of numbers leads to (an entry that
\* leads to no request has the outcome "ok", which nothing reads)
OutcomesFor(numbers) ==
    { o \in [1..Len(numbers) -> PostOutcomes] :
        \A k \in 1..Len(numbers) : ~country_and_msisdn(numbers[k]) => o[k] = "ok" }

\* the entry of results for one number
number_result(number, outcome) ==
    LET country == dict_get(number, "country", "")
        msisdn == dict_get(number, "msisdn", "")
    IN  IF country_and_msisdn(number)
        THEN [number |-> msisdn, country |-> country,
              success |-> api_result(outcome).success,
              error |-> IF ~api_result(outcome).success
                        THEN api_result(outcome).error ELSE NoneStr]
        ELSE [number |-> msisdn, country |-> country, success |-> FALSE,
              error |-> "Invalid number data"]

\* the loop over request.numbers leaving at the first failed number
number_results_stop_at_failure(numbers, outcomes) ==
    LET failing == {k \in 1..Len(numbers) : ~number_result(numbers[k], outcomes[k]).success}
        last == IF failing = {} THEN Len(numbers)
                ELSE CHOOSE k \in failing : \A j \in failing : k <= j
    IN  [k \in 1..last |-> number_result(numbers[k], outcomes[k])]

\* the loop over request.numbers: results
number_results(numbers, outcomes) ==
    [k \in 1..Len(numbers) |-> number_result(numbers[k], outcomes[k])]

\* the loop over request.numbers: the requests sent, in order
RECURSIVE number_calls(_, _, _, _, _)
number_calls(client, endpoint, numbers, outcomes, target_api_key) ==
    IF numbers = <<>> THEN <<>>
    ELSE LET number == Head(numbers)
             rest == number_calls(client, endpoint, Tail(numbers), Tail(outcomes),
                                  target_api_key)
         IN  IF country_and_msisdn(number)
             THEN <<Sent(client, "POST", endpoint,
                         <<number["country"], number["msisdn"], target_api_key>>,
                         Head(outcomes))>> \o rest
             ELSE rest

\* the response built from results
number_summary(rs) ==
    Body(TRUE,
         [total |-> Len(rs),
          successful |-> Cardinality({k \in 1..Len(rs) : rs[k].success}),
          failed |-> Cardinality({k \in 1..Len(rs) : ~rs[k].success}),
          results |-> rs],
         NoneStr)

\* the response of connect_account after the check of the credentials
connect_body(outcome) ==
    IF outcome = "ok" THEN Body(TRUE, "numbers", NoneStr)
    ELSE IF outcome = "ok_not_object" THEN Body(FALSE, NoneStr, "AttributeError")
    ELSE Body(FALSE, NoneStr, api_result(outcome).error)

\* what the application leaves alone whatever it serves
serving == <<pc, app, suspendvars, csvvars>>

(***************************************************************************)
(* main.py                                                                 *)
(***************************************************************************)
NotConnected == "Not connected to account"

main_load_credentials ==
    /\ app = "main.py"
    /\ call' = [fn |-> "load_credentials", arg |-> <<>>]
    /\ ret' = IF /\ credentials_file # None
                 /\ credentials_file.api_key # ""
                 /\ credentials_file.api_secret # ""
              THEN JSONResponse(Body(TRUE, credentials_file, NoneStr))
              ELSE JSONResponse(Body(FALSE, NoneStr, "No saved credentials found"))
    /\ upstream' = <<>>
    /\ UNCHANGED <<api_client, credentials_file, user_sessions, serving>>

main_save_credentials ==
    /\ app = "main.py"
    /\ \E request \in ConnectRequests :
        /\ call' = [fn |-> "save_credentials", arg |-> request]
        /\ credentials_file' =
                [api_key |-> request.api_key, api_secret |-> request.api_secret]
    /\ ret' = JSONResponse(Body(TRUE, NoneStr, NoneStr))
    /\ upstream' = <<>>
    /\ UNCHANGED <<api_client, user_sessions, serving>>

main_clear_credentials ==
    /\ app = "main.py"
    /\ call' = [fn |-> "clear_credentials", arg |-> <<>>]
    /\ credentials_file' = None
    /\ ret' = JSONResponse(Body(TRUE, NoneStr, NoneStr))
    /\ upstream' = <<>>
    /\ UNCHANGED <<api_client, user_sessions, serving>>

main_connect_account ==
    /\ app = "main.py"
    /\ \E request \in ConnectRequests, outcome \in GetOutcomes :
        LET client == VonageNumbersAPIClient(request.api_key, request.api_secret) IN
        /\ call' = [fn |-> "connect_account", arg |-> request]
        /\ api_client' = client
        /\ upstream' = <<Sent(client, "GET", "/account/numbers", <<>>, outcome)>>
        /\ credentials_file' =
                IF api_result(outcome).success /\ request.save_credentials
                THEN [api_key |-> request.api_key, api_secret |-> request.api_secret]
                ELSE credentials_file
        /\ ret' = JSONResponse(connect_body(outcome))
    /\ UNCHANGED <<user_sessions, serving>>

\* an endpoint of main.py that makes one GET request
main_get(fn, arg, endpoint, data) ==
    /\ app = "main.py"
    /\ call' = [fn |-> fn, arg |-> arg]
    /\ IF api_client = None
       THEN /\ ret' = HTTPException(400, NotConnected)
            /\ upstream' = <<>>
       ELSE \E outcome \in GetOutcomes :
            /\ upstream' = <<Sent(api_client, "GET", endpoint, data, outcome)>>
            /\ ret' = JSONResponse(api_result(outcome))
    /\ UNCHANGED <<api_client, credentials_file, user_sessions, serving>>

main_get_owned_numbers == main_get("get_owned_numbers", <<>>, "/account/numbers", <<>>)

main_search_numbers ==
    \E request \in SearchRequests :
        main_get("search_numbers", request, "/number/search", <<"GB">>)

main_get_subaccounts ==
    main_get("get_subaccounts", <<>>,
             IF api_client = None THEN "/accounts" ELSE <<"/accounts", api_client.api_key>>,
             <<>>)

\* buy_numbers and cancel_numbers of main.py
main_numbers(fn, request, endpoint) ==
    /\ app = "main.py"
    /\ call' = [fn |-> fn, arg |-> request]
    /\ IF api_client = None
       THEN /\ ret' = HTTPException(400, NotConnected)
            /\ upstream' = <<>>
       ELSE \E outcomes \in OutcomesFor(request.numbers) :
            /\ upstream' = number_calls(api_client, endpoint, request.numbers, outcomes,
                                        request.target_api_key)
            /\ ret' = JSONResponse(number_summary(number_results(request.numbers, outcomes)))
    /\ UNCHANGED <<api_client, credentials_file, user_sessions, serving>>

main_buy_numbers ==
    \E request \in PurchaseRequests : main_numbers("buy_numbers", request, "/number/buy")

main_cancel_numbers ==
    \E request \in CancelRequests : main_numbers("cancel_numbers", request, "/number/cancel")

(***************************************************************************)
(* render_main.py                                                          *)
(***************************************************************************)
APP_USERNAME == "admin"
APP_PASSWORD == "changeme123"
NotConnectedPleaseConnect ==
    "Not connected. Please connect with your API credentials first."

\* the HTTP Basic credentials a request may carry
Callers ==
    { [username |-> "admin", password |-> "changeme123"],
      [username |-> "admin", password |-> "guess"],
      [username |-> "guest", password |-> "changeme123"] }

\* get_current_user returns the username of these and answers 401 to the rest
authenticated(credentials) ==
    credentials.username = APP_USERNAME /\ credentials.password = APP_PASSWORD

Unauthorized == HTTPException(401, "Incorrect username or password")

\* user_sessions[current_user] = api_client
with_session(sessions, current_user, client) ==
    [u \in DOMAIN sessions \cup {current_user} |->
        IF u = current_user THEN client ELSE sessions[u]]

\* del user_sessions[current_user]
without_session(sessions, current_user) ==
    [u \in DOMAIN sessions \ {current_user} |-> sessions[u]]

render_disconnect_account ==
    /\ app = "render_main.py"
    /\ \E credentials \in Callers :
        /\ call' = [fn |-> "disconnect_account", arg |-> <<>>, credentials |-> credentials]
        /\ IF ~authenticated(credentials)
           THEN ret' = Unauthorized /\ user_sessions' = user_sessions
           ELSE LET current_user == credentials.username IN
                IF current_user \in DOMAIN user_sessions
                THEN /\ user_sessions' = without_session(user_sessions, current_user)
                     /\ ret' = JSONResponse(Body(TRUE, NoneStr, NoneStr))
                ELSE /\ user_sessions' = user_sessions
                     /\ ret' = JSONResponse(Body(FALSE, NoneStr, "No active session found"))
    /\ upstream' = <<>>
    /\ UNCHANGED <<api_client, credentials_file, serving>>

render_get_connection_status ==
    /\ app = "render_main.py"
    /\ \E credentials \in Callers :
        /\ call' = [fn |-> "get_connection_status", arg |-> <<>>,
                    credentials |-> credentials]
        /\ ret' = IF ~authenticated(credentials) THEN Unauthorized
                  ELSE JSONResponse([connected |-> credentials.username \in DOMAIN user_sessions])
    /\ upstream' = <<>>
    /\ UNCHANGED <<api_client, credentials_file, user_sessions, serving>>

\* connect_account storing the client before the credentials are checked
render_connect_account_store_first ==
    /\ app = "render_main.py"
    /\ \E credentials \in Callers, request \in ConnectRequests, outcome \in GetOutcomes :
        LET client == VonageNumbersAPIClient(request.api_key, request.api_secret) IN
        /\ call' = [fn |-> "connect_account", arg |-> request, credentials |-> credentials]
        /\ IF ~authenticated(credentials)
           THEN /\ outcome = "error"
                /\ ret' = Unauthorized
                /\ upstream' = <<>>
                /\ user_sessions' = user_sessions
           ELSE /\ upstream' = <<Sent(client, "GET", "/account/numbers", <<>>, outcome)>>
                /\ user_sessions' = with_session(user_sessions, credentials.username, client)
                /\ ret' = JSONResponse(connect_body(outcome))
    /\ UNCHANGED <<api_client, credentials_file, serving>>

render_connect_account ==
    /\ app = "render_main.py"
    /\ \E credentials \in Callers, request \in ConnectRequests, outcome \in GetOutcomes :
        LET client == VonageNumbersAPIClient(request.api_key, request.api_secret) IN
        /\ call' = [fn |-> "connect_account", arg |-> request, credentials |-> credentials]
        /\ IF ~authenticated(credentials)
           THEN /\ outcome = "error"
                /\ ret' = Unauthorized
                /\ upstream' = <<>>
                /\ user_sessions' = user_sessions
           ELSE /\ upstream' = <<Sent(client, "GET", "/account/numbers", <<>>, outcome)>>
                /\ user_sessions' =
                        IF api_result(outcome).success
                        THEN with_session(user_sessions, credentials.username, client)
                        ELSE user_sessions
                /\ ret' = JSONResponse(connect_body(outcome))
    /\ UNCHANGED <<api_client, credentials_file, serving>>

\* the requests get_subaccounts of render_main.py sends: none without api_key
render_subaccounts_calls(client, outcome) ==
    IF client.api_key = "" THEN <<>>
    ELSE <<Sent(client, "GET", <<"/accounts", client.api_key>>, <<>>, outcome)>>

render_subaccounts_result(client, outcome) ==
    IF client.api_key = "" THEN [success |-> FALSE, error |-> "API key not configured"]
    ELSE api_result(outcome)

\* the request that an endpoint of render_main.py sends through the client
\* of the session
render_calls(fn, client, outcome) ==
    IF fn = "get_owned_numbers"
    THEN <<Sent(client, "GET", "/account/numbers", <<>>, outcome)>>
    ELSE IF fn = "search_numbers"
    THEN <<Sent(client, "GET", "/number/search", <<"GB">>, outcome)>>
    ELSE render_subaccounts_calls(client, outcome)

\* what the client returns to the endpoint
render_answer(fn, client, outcome) ==
    IF fn = "get_subaccounts" THEN render_subaccounts_result(client, outcome)
    ELSE api_result(outcome)

\* an endpoint of render_main.py that asks the client of the session for one thing
render_get(fn, arg) ==
    /\ app = "render_main.py"
    /\ \E credentials \in Callers :
        /\ call' = [fn |-> fn, arg |-> arg, credentials |-> credentials]
        /\ IF ~authenticated(credentials)
           THEN ret' = Unauthorized /\ upstream' = <<>>
           ELSE LET current_user == credentials.username IN
                IF current_user \notin DOMAIN user_sessions
                THEN /\ ret' = HTTPException(400, NotConnectedPleaseConnect)
                     /\ upstream' = <<>>
                ELSE \E outcome \in GetOutcomes :
                     LET client == user_sessions[current_user] IN
                     /\ (fn = "get_subaccounts" /\ client.api_key = "" => outcome = "error")
                     /\ upstream' = render_calls(fn, client, outcome)
                     /\ ret' = JSONResponse(render_answer(fn, client, outcome))
    /\ UNCHANGED <<api_client, credentials_file, user_sessions, serving>>

render_get_owned_numbers == render_get("get_owned_numbers", <<>>)

render_search_numbers ==
    \E request \in SearchRequests : render_get("search_numbers", request)

render_get_subaccounts == render_get("get_subaccounts", <<>>)

render_get_account_info ==
    /\ app = "render_main.py"
    /\ \E credentials \in Callers :
        /\ call' = [fn |-> "get_account_info", arg |-> <<>>, credentials |-> credentials]
        /\ IF ~authenticated(credentials)
           THEN ret' = Unauthorized /\ upstream' = <<>>
           ELSE LET current_user == credentials.username IN
                IF current_user \notin DOMAIN user_sessions
                THEN /\ ret' = HTTPException(400, NotConnectedPleaseConnect)
                     /\ upstream' = <<>>
                ELSE \E balance \in GetOutcomes, subaccounts \in GetOutcomes :
                     LET client == user_sessions[current_user] IN
                     /\ client.api_key = "" => subaccounts = "error"
                     /\ upstream' =
                            <<Sent(client, "GET", "/account/get-balance", <<>>, balance)>>
                            \o render_subaccounts_calls(client, subaccounts)
                     /\ ret' = JSONResponse(Body(TRUE,
                            [balance |-> api_result(balance).success,
                             subaccounts |->
                                render_subaccounts_result(client, subaccounts).success],
                            NoneStr))
    /\ UNCHANGED <<api_client, credentials_file, user_sessions, serving>>

\* buy_numbers and cancel_numbers of render_main.py (a request that
\* get_current_user rejects is never read: the empty list stands for all)
render_numbers(fn, request, endpoint) ==
    /\ app = "render_main.py"
    /\ \E credentials \in Callers :
        /\ call' = [fn |-> fn, arg |-> request, credentials |-> credentials]
        /\ IF ~authenticated(credentials)
           THEN /\ request.numbers = <<>>
                /\ ret' = Unauthorized
                /\ upstream' = <<>>
           ELSE LET current_user == credentials.username IN
                IF current_user \notin DOMAIN user_sessions
                THEN /\ ret' = HTTPException(400, NotConnectedPleaseConnect)
                     /\ upstream' = <<>>
                ELSE \E outcomes \in OutcomesFor(request.numbers) :
                     /\ upstream' = number_calls(user_sessions[current_user], endpoint,
                                        request.numbers, outcomes, request.target_api_key)
                     /\ ret' = JSONResponse(
                            number_summary(number_results(request.numbers, outcomes)))
    /\ UNCHANGED <<api_client, credentials_file, user_sessions, serving>>

render_buy_numbers ==
    \E request \in PurchaseRequests : render_numbers("buy_numbers", request, "/number/buy")

render_cancel_numbers ==
    \E request \in CancelRequests :
        render_numbers("cancel_numbers", request, "/number/cancel")

InitWeb ==
    /\ pc = "serving"
    /\ app \in {"main.py", "render_main.py"}
    /\ api_client = None
    /\ credentials_file = None
    /\ user_sessions = [u \in {} |-> None]
    /\ upstream = <<>>
    /\ AUTH_TOKEN = ""
    /\ SUB_API_KEYS = <<>>
    /\ key_index = 0
    /\ results = EmptyResults
    /\ CsvIdle
    /\ call = NoCall
    /\ ret = Pending

NextWeb ==
    \/ main_load_credentials
    \/ main_save_credentials
    \/ main_clear_credentials
    \/ main_connect_account
    \/ main_get_owned_numbers
    \/ main_search_numbers
    \/ main_get_subaccounts
    \/ main_buy_numbers
    \/ main_cancel_numbers
    \/ render_disconnect_account
    \/ render_get_connection_status
    \/ render_connect_account
    \/ render_get_owned_numbers
    \/ render_search_numbers
    \/ render_get_subaccounts
    \/ render_get_account_info
    \/ render_buy_numbers
    \/ render_cancel_numbers

SpecWeb == InitWeb /\ [][NextWeb]_vars

Returned(fn) == call.fn = fn /\ ret # Pending

(***************************************************************************)
(* Reading an output line back as CSV (the default dialect of Python's     *)
(* csv.reader), to state the properties of the files.                      *)
(***************************************************************************)
NoQuoteIn(s) == \A i \in 1..Len(s) : s[i] # QUOTE

\* the index of the quote that closes a quoted field, scanning from
\* position k; 0 when none does.  A quote followed by a quote is an escaped
\* quote, any other quote closes the field.
RECURSIVE ClosingQuoteFrom(_, _)
ClosingQuoteFrom(s, k) ==
    IF k > Len(s) THEN 0
    ELSE IF s[k] # QUOTE THEN ClosingQuoteFrom(s, k + 1)
    ELSE IF k < Len(s) /\ s[k + 1] = QUOTE THEN ClosingQuoteFrom(s, k + 2)
    ELSE k

\* index of the first comma of s at or after position k, Len(s)+1 when none
RECURSIVE NextComma(_, _)
NextComma(s, k) ==
    IF k > Len(s) THEN Len(s) + 1
    ELSE IF s[k] = "," THEN k
    ELSE NextComma(s, k + 1)

\* where the field that starts at position a ends: the index of the comma
\* after it.  Text after the closing quote belongs to the field.
FieldEndFrom(s, a) ==
    IF a <= Len(s) /\ s[a] = QUOTE
    THEN LET c == ClosingQuoteFrom(s, a + 1) IN
         IF c = 0 THEN Len(s) + 1 ELSE NextComma(s, c + 1)
    ELSE NextComma(s, a)

RECURSIVE unescape(_)
unescape(t) ==
    IF t = <<>> THEN <<>>
    ELSE IF Len(t) >= 2 /\ t[1] = QUOTE /\ t[2] = QUOTE
         THEN <<QUOTE>> \o unescape(SubSeq(t, 3, Len(t)))
         ELSE <<t[1]>> \o unescape(Tail(t))

\* the value of one field from its text
FieldValue(raw) ==
    IF raw # <<>> /\ raw[1] = QUOTE
    THEN LET c == ClosingQuoteFrom(raw, 2) IN
         IF c = 0 THEN unescape(Tail(raw))
         ELSE unescape(SubSeq(raw, 2, c - 1)) \o SubSeq(raw, c + 1, Len(raw))
    ELSE raw

\* the texts of the fields of a line, delimiters removed
RECURSIVE RawFieldsFrom(_, _)
RawFieldsFrom(s, a) ==
    LET e == FieldEndFrom(s, a) IN
    IF e > Len(s) THEN <<SubSeq(s, a, Len(s))>>
    ELSE <<SubSeq(s, a, e - 1)>> \o RawFieldsFrom(s, e + 1)

RawFields(s) == RawFieldsFrom(s, 1)

\* the values of the fields of a line
CsvRow(s) ==
    IF s = <<>> THEN <<>>
    ELSE LET raw == RawFields(s) IN [k \in 1..Len(raw) |-> FieldValue(raw[k])]

(***************************************************************************)
(* Properties of process_csv (specification Spec).                         *)
(***************************************************************************)
\* the rows of the input read so far, as pieces cut where the chunks end
RECURSIVE ChunksRead(_)
ChunksRead(n) ==
    IF n = 0 THEN <<>>
    ELSE LET start == ((n - 1) \div chunk_size) * chunk_size IN
         ChunksRead(start) \o rows_between(input, start, n)

\* the frames of the chunks that the first n rows of the input make up,
\* one after the other
RECURSIVE FramesRead(_)
FramesRead(n) ==
    IF n = 0 THEN <<>>
    ELSE LET start == ((n - 1) \div chunk_size) * chunk_size IN
         FramesRead(start) \o chunk_frame(read_csv(rows_between(input, start, n)))

\* the rows, as the frame holds them, that have been written to the file of
\* date d: those of the earlier run, then those of the chunks read so far
ExpectedRows(d) ==
    (IF d \in DOMAIN prior THEN date_group(chunk_frame(read_csv(PreviousInput)), d)
     ELSE <<>>)
        \o date_group(FramesRead(pos), d)

\* the texts csv.writer is handed for one row of the frame
ExpectedCells(r) ==
    [k \in 1..Len(OutputColumns) |-> cell_text(OutputColumns[k], r[OutputColumns[k]])]

ColumnIndex(c) == CHOOSE k \in 1..Len(OutputColumns) : OutputColumns[k] = c

\* a line of a file without its line end
Line(run) == SubSeq(run.text, 1, Len(run.text) - 1)

\* the header line without its line end, and its fields read back
HeaderText == SubSeq(header_line, 1, Len(header_line) - Len(lineterminator))
HeaderRead == CsvRow(HeaderText)

\* a whole line, ended by one line feed, that starts with a quote
IsDataRow(run) ==
    /\ ends_line(run.text)
    /\ "\r" \notin {run.text[i] : i \in 1..Len(run.text)}
    /\ Line(run) # HeaderText
    /\ Line(run)[1] = QUOTE

\* C1: when the header lacks a required column, the only step of the run is
\* the schema check, which returns None: no chunk is read, no row is
\* processed, no output file is created or modified.
C1_SchemaAbort ==
    [][missing_columns(header) # {} =>
            /\ pc = "start" /\ pc' = "done"
            /\ result' = ReturnNone
            /\ pos' = 0
            /\ stats' = InitialStats
            /\ files' = prior]_vars

\* C1 witness: a run over a non-empty input and a non-empty directory has
\* ended at the schema check.
C1_Witness ==
    /\ pc = "done"
    /\ missing_columns(header) # {}
    /\ Len(input) > 0
    /\ prior # EmptyDir
    /\ result = ReturnNone

HeaderOnlyFirst ==
    \A d \in DOMAIN files :
        /\ Len(files[d]) >= 1
        /\ files[d][1] = Run(HeaderText \o <<"\n">>, 1)
        /\ \A i \in 2..Len(files[d]) : IsDataRow(files[d][i])

AppendsRowsOnly ==
    \A d \in DOMAIN files :
        /\ d \in DOMAIN files'
        /\ Len(files'[d]) >= Len(files[d])
        /\ \A i \in (Len(files[d]) + 1)..Len(files'[d]) : IsDataRow(files'[d][i])

\* C2: every output file, also one the run found in the directory, holds
\* exactly one header row, as its first line, and every write to an existing
\* file adds data rows only.
C2_HeaderOnce == []HeaderOnlyFirst /\ [][AppendsRowsOnly]_vars

\* C2 witness: two chunks have been appended to a file of an earlier run.
C2_Witness ==
    /\ pc = "done"
    /\ prior = PreviousDir
    /\ pos = chunk_size + 1
    /\ row_count(files["2025-05-09"]) = 2 + pos

\* C3: every line of every file reads back as 24 columns: the header as the
\* 21 required names in order followed by Tag, Total Parts, Part Num, and a
\* data row as the cells of its row of the frame in that order (a cell
\* without quotes unchanged, any cell with its characters other than quotes
\* unchanged).
C3_Columns ==
    \A d \in DOMAIN files :
        LET rows == ExpectedRows(d) IN
        /\ Line(files[d][1]) = HeaderText
        /\ HeaderRead = [k \in 1..Len(OutputColumns) |-> Chars(OutputColumns[k])]
        /\ Len(OutputColumns) = 24
        /\ Len(files[d]) = 1 + Len(rows)
        /\ \A i \in 2..Len(files[d]) :
            LET got == CsvRow(Line(files[d][i]))
                want == ExpectedCells(rows[i - 1].row)
            IN  /\ files[d][i].n = rows[i - 1].n
                /\ Len(got) = 24
                /\ \A k \in 1..24 :
                    /\ RemoveChar(got[k], QUOTE) = RemoveChar(want[k], QUOTE)
                    /\ (NoQuoteIn(want[k]) => got[k] = want[k])

\* C3 witness: a row whose `from` cell is quote, comma, quote has been
\* written; the cell reads back as a comma.
C3_Witness ==
    \E d \in DOMAIN files : \E i \in 2..Len(files[d]) :
        /\ ExpectedCells(ExpectedRows(d)[i - 1].row)[ColumnIndex("from")]
                = <<QUOTE, ",", QUOTE>>
        /\ CsvRow(Line(files[d][i]))[ColumnIndex("from")] = <<",">>

\* C10: in every data row of every file the text of the message_body field
\* is one opening quote, the sanitized body with no quote in it, and one
\* closing quote.
C10_BodyQuotedOnce ==
    \A d \in DOMAIN files :
        LET rows == ExpectedRows(d) IN
        /\ Len(files[d]) = 1 + Len(rows)
        /\ \A i \in 2..Len(files[d]) :
            LET raw == RawFields(Line(files[d][i]))[ColumnIndex("message_body")]
                body == rows[i - 1].row["message_body"]
            IN  /\ Len(raw) = Len(body) + 2
                /\ raw[1] = QUOTE
                /\ raw[Len(raw)] = QUOTE
                /\ SubSeq(raw, 2, Len(raw) - 1) = body
                /\ Len(SelectSeq(raw, LAMBDA c : c = QUOTE)) = 2

\* C10 witness: a body that came with a comma and a quote has been written.
C10_Witness ==
    /\ pos = row_count(input)
    /\ \E i \in 1..Len(input) :
        /\ input[i].row["message_body"] = <<"h", ",", QUOTE>>
        /\ \E d \in DOMAIN files : \E j \in 2..Len(files[d]) :
            RawFields(Line(files[d][j]))[ColumnIndex("message_body")]
                = <<QUOTE, "h", ",", QUOTE>>

\* a line holds three quote characters in a row
ThreeQuotesIn(s) ==
    \E i \in 1..(Len(s) - 2) : s[i] = QUOTE /\ s[i + 1] = QUOTE /\ s[i + 2] = QUOTE

\* C11: after every write no data row holds three quote characters in a
\* row, and every field of every data row starts with a quote and ends with
\* a quote.
C11_Original ==
    \A d \in DOMAIN files : \A i \in 2..Len(files[d]) :
        /\ ~ThreeQuotesIn(Line(files[d][i]))
        /\ LET raw == RawFields(Line(files[d][i])) IN
           \A k \in 1..Len(raw) :
                Len(raw[k]) >= 2 /\ raw[k][1] = QUOTE /\ raw[k][Len(raw[k])] = QUOTE

\* the date_received cell of an input row parses
Parses(r) == to_datetime_coerce(r["date_received"]).kind = "Timestamp"

\* the calendar date an input row's date_received text starts with
DateOf(r) == r["date_received"].s[1]

\* the input rows read so far, in input order, that parse
ValidRead == SelectSeq(ChunksRead(pos), LAMBDA p : Parses(p.row))

\* those of them that fall on date d
ValidRowsOn(d) == SelectSeq(ValidRead, LAMBDA p : DateOf(p.row) = d)

DatesRead == {DateOf(ValidRead[i].row) : i \in 1..Len(ValidRead)}

ValidRowCount == row_count(ValidRead)

\* data rows a directory holds
RECURSIVE DataRowCount(_, _)
DataRowCount(dir, S) ==
    IF S = {} THEN 0
    ELSE LET d == CHOOSE x \in S : TRUE IN
         (row_count(dir[d]) - 1) + DataRowCount(dir, S \ {d})

\* the data lines that the file of date d held before the run, as runs
PriorRuns(d) == IF d \in DOMAIN prior THEN Len(prior[d]) - 1 ELSE 0

\* the date_received cell of a data line, read back
DateCell(line) == CsvRow(line)[ColumnIndex("date_received")]

\* C12: rows whose date_received does not parse are in no output file: the
\* files hold one data row per row read so far that parses, each with a
\* date in its date_received cell; and such a row does not stop the run:
\* with a complete header the run ends having read every row and returns
\* the summary.
C12_InvalidDateDropped ==
    /\ DataRowCount(files, DOMAIN files)
            = DataRowCount(prior, DOMAIN prior) + ValidRowCount
    /\ \A d \in DOMAIN files : \A i \in 2..Len(files[d]) :
            SubSeq(DateCell(Line(files[d][i])), 1, 10)
                \in {Chars(c) : c \in CalendarDates}
    /\ (pc = "done" /\ missing_columns(header) = {})
            => (pos = row_count(input) /\ result.kind = "stats")

\* C12 witness: a run has ended whose first row does not parse and whose
\* later rows, the last of them in a second chunk, were written.
C12_Witness ==
    /\ pc = "done"
    /\ prior = EmptyDir
    /\ Len(input) = 3
    /\ ~Parses(input[1].row) /\ Parses(input[2].row) /\ Parses(input[3].row)
    /\ row_count(input) > chunk_size
    /\ DataRowCount(files, DOMAIN files) = row_count(input) - 1

\* the date_received cell as it is written: the date, a blank, the time
WrittenDate(r) ==
    LET t == r["date_received"].s IN
    IF Len(t) = 1
    THEN Chars(t[1]) \o <<" ", "0", "0", ":", "0", "0", ":", "0", "0">>
    ELSE Chars(t[1]) \o <<" ">> \o SubSeq(t, 3, Len(t))

\* C13: there is one file per calendar date among the rows that parse (and
\* per file of the earlier run); the file of date d holds, after what the
\* earlier run left, exactly the rows of date d in input order; the summary
\* counts one file per date of this run.
C13_OneFilePerDate ==
    missing_columns(header) = {} =>
        /\ DOMAIN files = DOMAIN prior \cup DatesRead
        /\ \A d \in DOMAIN files :
            LET rows == ValidRowsOn(d)
                before == 1 + PriorRuns(d)
            IN  /\ Len(files[d]) = before + Len(rows)
                /\ \A i \in 1..Len(rows) :
                        /\ DateCell(Line(files[d][before + i])) = WrittenDate(rows[i].row)
                        /\ files[d][before + i].n = rows[i].n
        /\ pc = "done" => result.files_created = Cardinality(DatesRead)

\* C13 witness: one chunk held rows of two dates; each went to its own file.
C13_Witness ==
    /\ pc = "done"
    /\ prior = EmptyDir
    /\ row_count(input) = 2
    /\ Parses(input[1].row) /\ Parses(input[2].row)
    /\ DateOf(input[1].row) = "2025-05-09" /\ DateOf(input[2].row) = "2025-05-10"
    /\ DOMAIN files = {"2025-05-09", "2025-05-10"}
    /\ row_count(files["2025-05-09"]) = 2 /\ row_count(files["2025-05-10"]) = 2

\* C15: no step alters or truncates what a file already holds: after the
\* step the earlier content is an unchanged prefix of the file, and what
\* follows it is data rows.
C15_Original ==
    [][\A d \in DOMAIN files :
            /\ d \in DOMAIN files'
            /\ Len(files'[d]) >= Len(files[d])
            /\ SubSeq(files'[d], 1, Len(files[d])) = files[d]
            /\ \A i \in (Len(files[d]) + 1)..Len(files'[d]) :
                    IsDataRow(files'[d][i])]_vars

\* the input rows whose date_received does not parse
DroppedRowCount == row_count(SelectSeq(input, LAMBDA p : ~Parses(p.row)))

\* C16: the summary of a successful run has, next to the rows processed and
\* the files created, an entry that is the number of rows dropped for an
\* invalid date.
C16_Original ==
    (pc = "done" /\ result.kind = "stats") =>
        /\ result.total_rows = row_count(input) - DroppedRowCount
        /\ \E key \in DOMAIN result
                    \ {"kind", "total_rows", "files_created", "message_bodies_quoted"} :
                result[key] = DroppedRowCount

\* C17 (specification SpecExc): whenever an exception raised while a chunk
\* is processed reaches the handler of process_csv, every file that exists
\* is kept, none with fewer lines than before; the handler ends the run
\* with None, changes no file and reads no further chunk; after the end
\* nothing is read or written; and main reports the failure of a run that
\* returned None.
C17_ExceptionAborts ==
    /\ [][pc' = "except" =>
            \A d \in DOMAIN files :
                d \in DOMAIN files' /\ row_count(files'[d]) >= row_count(files[d])]_vars
    /\ [][pc = "except" =>
            /\ pc' = "done" /\ result' = ReturnNone
            /\ files' = files /\ pos' = pos /\ stats' = stats]_vars
    /\ [][pc # "done"]_vars
    /\ [](pc = "done" /\ result = ReturnNone => main_reports(result) = "failed")

\* a run of three chunks ended by an exception in the second: the file that
\* the first chunk wrote is there and the third chunk is unread
C17_Witness ==
    /\ pc = "done"
    /\ missing_columns(header) = {}
    /\ result = ReturnNone
    /\ prior = EmptyDir
    /\ pos = chunk_size
    /\ pos + chunk_size < row_count(input)
    /\ stats.total_rows_processed > 0
    /\ DOMAIN files = {"2025-05-09"}
    /\ row_count(files["2025-05-09"]) = 2

\* an input cell is empty: pd.read_csv hands it over as NaN
EmptyCell(v) == isna(v)

\* C18: every row written whose `to` and `udh` cells are both empty has the
\* empty text as its Tag.
C18_Original ==
    \A d \in DOMAIN files :
        LET rows == ValidRowsOn(d) IN
        \A i \in 1..Len(rows) :
            (EmptyCell(rows[i].row["to"]) /\ EmptyCell(rows[i].row["udh"])) =>
                (/\ 1 + PriorRuns(d) + i <= Len(files[d])
                 /\ CsvRow(Line(files[d][1 + PriorRuns(d) + i]))[ColumnIndex("Tag")] = <<>>)

\* the required columns the chunks of the run lack
LackingColumns == RequiredSet \ DOMAIN input[1].row

\* the data lines this run has added to the file of date d
AddedLines(d) == SubSeq(files[d], 2 + PriorRuns(d), Len(files[d]))

\* every line the run has added has 24 columns, with the empty text in the
\* columns the chunks lack
LackingColumnsEmpty ==
    \A d \in DOMAIN files : \A i \in 1..Len(AddedLines(d)) :
        LET cells == CsvRow(Line(AddedLines(d)[i])) IN
        /\ Len(cells) = 24
        /\ \A c \in LackingColumns : cells[ColumnIndex(c)] = <<>>

RunCompletes == pc = "done" => (result.kind = "stats" /\ pos = row_count(input))

\* the rows this run has added to the files
AddedRowCount == DataRowCount(files, DOMAIN files) - DataRowCount(prior, DOMAIN prior)

\* C21 as stated (specification SpecDrift): when the chunks lack a required
\* column it is filled with the empty text, the rows of each chunk are
\* still written, with 21 required columns, and the run goes on to the end.
C21_Original ==
    /\ LackingColumnsEmpty
    /\ RunCompletes
    /\ AddedRowCount
        = row_count(SelectSeq(ChunksRead(pos),
                LAMBDA p : "date_received" \notin DOMAIN p.row \/ Parses(p.row)))

\* C21 amended: when the chunks lack a required column it is filled with
\* the empty text and the run goes on to the end; the rows of each chunk
\* are written with 21 required columns, except that when the column the
\* chunks lack is date_received every row is dropped for its invalid date
\* and nothing is written.
C21_MissingColumnFilled ==
    /\ LackingColumnsEmpty
    /\ RunCompletes
    /\ AddedRowCount
        = row_count(SelectSeq(ChunksRead(pos),
                LAMBDA p : "date_received" \in DOMAIN p.row /\ Parses(p.row)))

\* C21 witness: the rows of two chunks without the `to` column were
\* written, the `to` cell empty.
C21_Witness ==
    /\ pc = "done"
    /\ LackingColumns = {"to"}
    /\ row_count(input) > chunk_size
    /\ prior = EmptyDir
    /\ AddedRowCount = row_count(input)
    /\ \E d \in DOMAIN files :
        CsvRow(Line(files[d][2]))[ColumnIndex("to")] = <<>>

\* what tells the rows of the inputs apart: sender and recipient without
\* their quotes, and the date and time.  A recipient that is a whole number
\* is compared as a number: it is written as read_csv typed its column
\* (98 as 98 or as 98.0).
PlainText(v) == IF isna(v) THEN <<>> ELSE RemoveChar(v, QUOTE)
NumberOrText(v) ==
    IF isna(v) THEN <<>>
    ELSE IF is_integer_text(v) THEN IntStr(integer_value(v))
    ELSE IF /\ Len(v) > 2
            /\ SubSeq(v, Len(v) - 1, Len(v)) = <<".", "0">>
            /\ is_integer_text(SubSeq(v, 1, Len(v) - 2))
         THEN IntStr(integer_value(SubSeq(v, 1, Len(v) - 2)))
    ELSE RemoveChar(v, QUOTE)
RowKey(r) == <<PlainText(r["from"]), NumberOrText(r["to"]), WrittenDate(r)>>
LineKey(line) ==
    LET cells == CsvRow(line) IN
    << RemoveChar(cells[ColumnIndex("from")], QUOTE),
       NumberOrText(cells[ColumnIndex("to")]),
       cells[ColumnIndex("date_received")] >>

\* C22: a step that reads a chunk adds to each file, after the lines the
\* file held, which stay where they were, the rows of the chunk that fall
\* on the file's date, together and in the order of the input.
C22_StableGrouping ==
    [][pos' > pos =>
        \A d \in DOMAIN files' :
            LET before == IF d \in DOMAIN files THEN Len(files[d]) ELSE 1
                added == SelectSeq(rows_between(input, pos, pos'),
                                   LAMBDA p : Parses(p.row) /\ DateOf(p.row) = d)
            IN  /\ Len(files'[d]) = before + Len(added)
                /\ \A i \in 2..before :
                        /\ LineKey(Line(files'[d][i])) = LineKey(Line(files[d][i]))
                        /\ files'[d][i].n = files[d][i].n
                /\ \A i \in 1..Len(added) :
                        /\ LineKey(Line(files'[d][before + i])) = RowKey(added[i].row)
                        /\ files'[d][before + i].n = added[i].n]_vars

\* C22 witness: rows of one date, the first two different, were written in
\* two chunks to one file.
C22_Witness ==
    /\ pc = "done"
    /\ prior = EmptyDir
    /\ Len(input) = 3
    /\ \A i \in 1..3 : Parses(input[i].row) /\ DateOf(input[i].row) = "2025-05-09"
    /\ RowKey(input[1].row) # RowKey(input[2].row)
    /\ row_count(input) > chunk_size
    /\ row_count(files["2025-05-09"]) = 1 + row_count(input)

HasQuote(v) == \E i \in 1..Len(v) : v[i] = QUOTE

\* a body that starts with a quote, ends with a quote and has no other
WrappedOnce(v) ==
    /\ Len(v) >= 2
    /\ v[1] = QUOTE /\ v[Len(v)] = QUOTE
    /\ \A i \in 2..(Len(v) - 1) : v[i] # QUOTE

\* C23 as stated: the summary's message_bodies_quoted is the number of
\* input rows whose raw message_body holds at least one quote character.
C23_Original ==
    (pc = "done" /\ result.kind = "stats") =>
        result.message_bodies_quoted
            = row_count(SelectSeq(input,
                    LAMBDA p : ~isna(p.row["message_body"])
                                    /\ HasQuote(p.row["message_body"])))

\* C23 amended: message_bodies_quoted is the number of rows read, dropped
\* ones included, whose raw message_body is not null and is not wrapped in
\* exactly one pair of quotes (first and last character a quote and no
\* other quote in it).
C23_BodiesCounted ==
    /\ stats.message_bodies_quoted
        = row_count(SelectSeq(ChunksRead(pos),
                LAMBDA p : ~isna(p.row["message_body"])
                                /\ ~WrappedOnce(p.row["message_body"])))
    /\ (pc = "done" /\ result.kind = "stats") =>
            (pos = row_count(input)
                /\ result.message_bodies_quoted = stats.message_bodies_quoted)

\* C23 witness: of a wrapped body and a body with a quote inside, only the
\* second was counted.
C23_Witness ==
    /\ pc = "done"
    /\ row_count(input) = 2
    /\ input[1].row["message_body"] = <<QUOTE, "h", QUOTE>>
    /\ input[2].row["message_body"] = <<"h", QUOTE, "i">>
    /\ result.kind = "stats"
    /\ result.message_bodies_quoted = 1

\* the sum of the row counts kept per date
RECURSIVE SumCounts(_, _)
SumCounts(counts, S) ==
    IF S = {} THEN 0
    ELSE LET d == CHOOSE x \in S : TRUE IN counts[d] + SumCounts(counts, S \ {d})

\* the number of rows among seq, whose keys are `keys`, that have the key k
RECURSIVE RowsWithKey(_, _, _)
RowsWithKey(seq, keys, k) ==
    IF seq = <<>> THEN 0
    ELSE (IF Head(keys) = k THEN Head(seq).n ELSE 0)
            + RowsWithKey(Tail(seq), Tail(keys), k)

\* C24: after any number of chunks the rows counted, the sum of the counts
\* kept per date and the number of rows read whose date parses are equal;
\* each such row is in the file of its date as often as it is in the input
\* and in no other file; the summary of a finished run counts the input
\* rows less those whose date does not parse.
C24_RowConservation ==
    missing_columns(header) = {} =>
        /\ stats.total_rows_processed
            = SumCounts(stats.files_created, DOMAIN stats.files_created)
        /\ stats.total_rows_processed = ValidRowCount
        /\ LET read == ValidRead
               keys_read == <<>> \o [i \in 1..Len(read) |-> RowKey(read[i].row)]
           IN  \A d \in DOMAIN files :
                LET added == AddedLines(d)
                    keys_added ==
                        <<>> \o [j \in 1..Len(added) |-> LineKey(Line(added[j]))]
                IN  \A i \in 1..Len(read) :
                        RowsWithKey(added, keys_added, keys_read[i])
                            = IF d = DateOf(read[i].row)
                              THEN RowsWithKey(read, keys_read, keys_read[i])
                              ELSE 0
        /\ (pc = "done" /\ result.kind = "stats") =>
                result.total_rows = row_count(input) - DroppedRowCount

\* C24 witness: rows of one date in different chunks and a row without a
\* valid date between them were counted without that row.
C24_Witness ==
    /\ pc = "done"
    /\ Len(input) = 3
    /\ Parses(input[1].row) /\ ~Parses(input[2].row) /\ Parses(input[3].row)
    /\ DateOf(input[1].row) = DateOf(input[3].row)
    /\ row_count(input) > chunk_size
    /\ result.kind = "stats"
    /\ result.total_rows = row_count(input) - 1
    /\ stats.files_created[DateOf(input[1].row)] = row_count(input) - 1

EndsWith(s, suffix) ==
    /\ Len(s) >= Len(suffix)
    /\ SubSeq(s, Len(s) - Len(suffix) + 1, Len(s)) = suffix

\* a udh that create_tag takes as present: not null and not blank
UdhPresent(u) == ~isna(u) /\ \E i \in 1..Len(u) : u[i] # " "

\* C25: every row the run has written has a Tag that ends with the time of
\* the row's own date_received: "-HHMM" when the udh is present, "-HHMMSS"
\* when it is not.
C25_TagHasTime ==
    \A d \in DOMAIN files :
        LET rows == ValidRowsOn(d) IN
        /\ Len(AddedLines(d)) = IF missing_columns(header) = {} THEN Len(rows) ELSE 0
        /\ \A i \in 1..Len(AddedLines(d)) :
            LET tag == CsvRow(Line(AddedLines(d)[i]))[ColumnIndex("Tag")]
                t == rows[i].row["date_received"].s
                hhmm == <<"-", t[3], t[4], t[6], t[7]>>
            IN  /\ Len(t) = 10
                /\ IF UdhPresent(rows[i].row["udh"])
                   THEN EndsWith(tag, hhmm)
                   ELSE EndsWith(tag, hhmm \o <<t[9], t[10]>>)

\* C25 witness: rows with a udh, with a blank udh and without one were
\* written with their times.
C25_Witness ==
    \E d \in DOMAIN files : \E i \in 1..Len(AddedLines(d)) :
        /\ i <= Len(ValidRowsOn(d))
        /\ ValidRowsOn(d)[i].row["udh"] = <<" ">>
        /\ CsvRow(Line(AddedLines(d)[i]))[ColumnIndex("Tag")]
            = <<"9", "8", "-", "2", "3", "5", "9", "5", "8">>

(***************************************************************************)
(* Properties of the helper functions (specification SpecFn).              *)
(***************************************************************************)
AllBlank(s) == \A i \in 1..Len(s) : s[i] = " "
NoOuterBlank(s) == s = <<>> \/ (s[1] # " " /\ s[Len(s)] # " ")

\* t is s without its leading and trailing blanks
IsTrimOf(t, s) ==
    \E a \in 1..(Len(s) + 1) : \E b \in 0..Len(s) :
        /\ a <= b + 1
        /\ t = SubSeq(s, a, b)
        /\ \A i \in 1..(a - 1) : s[i] = " "
        /\ \A i \in (b + 1)..Len(s) : s[i] = " "
        /\ NoOuterBlank(t)

\* the number a decimal text denotes, read digit by digit
RECURSIVE ReadNat(_, _)
ReadNat(s, acc) ==
    IF s = <<>> THEN acc ELSE ReadNat(Tail(s), 10 * acc + HexDigitValue(Head(s)))

IsDecimalOf(s, n) ==
    IF n < 0
    THEN /\ Len(s) >= 2 /\ s[1] = "-"
         /\ \A i \in 2..Len(s) : s[i] \in Digits
         /\ s[2] # "0"
         /\ ReadNat(Tail(s), 0) = 0 - n
    ELSE /\ s # <<>>
         /\ \A i \in 1..Len(s) : s[i] \in Digits
         /\ (Len(s) > 1 => s[1] # "0")
         /\ ReadNat(s, 0) = n

\* the value of a text of hexadecimal digits, most significant first
RECURSIVE HexRead(_, _)
HexRead(s, acc) ==
    IF s = <<>> THEN acc ELSE HexRead(Tail(s), 16 * acc + HexDigitValue(Head(s)))

AllHex(s) == \A i \in 1..Len(s) : s[i] \in Digits \cup HexLetters
IsHexNumber(s) ==
    \/ s # <<>> /\ AllHex(s)
    \/ Len(s) >= 2 /\ s[1] \in {"+", "-"} /\ AllHex(Tail(s))
HexNumber(s) ==
    IF s[1] = "-" THEN 0 - HexRead(Tail(s), 0)
    ELSE IF s[1] = "+" THEN HexRead(Tail(s), 0)
    ELSE HexRead(s, 0)

\* C7: hex_to_dec returns a value for every input: "1" for null, empty and
\* whitespace-only input, for input that (trimmed) is no hexadecimal number
\* and for input whose first character (trimmed) is a letter; otherwise the
\* decimal text of the hexadecimal value.
C7_HexToDecTotal ==
    Returned("hex_to_dec") =>
        LET v == call.arg IN
        IF v = NaN \/ AllBlank(v) THEN ret = <<"1">>
        ELSE \A a \in 1..Len(v) : \A b \in a..Len(v) :
                LET t == SubSeq(v, a, b) IN
                IsTrimOf(t, v) =>
                    IF t[1] \in Letters \/ ~IsHexNumber(t) THEN ret = <<"1">>
                    ELSE IsDecimalOf(ret, HexNumber(t))

\* C7 witness: a padded hexadecimal text with a leading digit was decoded.
C7_Witness ==
    /\ Returned("hex_to_dec")
    /\ call.arg = <<" ", "1", "f">>
    /\ ret = <<"3", "1">>

\* C8 as stated: "A0" decodes to "160", "" to "1", "ZZ" to "1".
C8_Original ==
    Returned("hex_to_dec") =>
        /\ (call.arg = <<"A", "0">> => ret = <<"1", "6", "0">>)
        /\ (call.arg = <<>> => ret = <<"1">>)
        /\ (call.arg = <<"Z", "Z">> => ret = <<"1">>)

\* C8 amended: "A0" decodes to "1" (its first character is a letter, so it
\* is never parsed), "" decodes to "1" and "ZZ" decodes to "1".
C8_FixedResults ==
    Returned("hex_to_dec") =>
        /\ (call.arg = <<"A", "0">> => ret = <<"1">>)
        /\ (call.arg = <<>> => ret = <<"1">>)
        /\ (call.arg = <<"Z", "Z">> => ret = <<"1">>)

\* C8 witness: "A0" has been decoded.
C8_Witness == Returned("hex_to_dec") /\ call.arg = <<"A", "0">>

\* a udh made of hexadecimal digits only
ValidUdh(u) == u # NaN /\ u # <<>> /\ AllHex(u)

\* u[-4:-2] and u[-2:] by position
PairTotal(u) == <<u[Len(u) - 3], u[Len(u) - 2]>>
PairNum(u) == <<u[Len(u) - 1], u[Len(u)]>>

\* C5 as stated: Total Parts is the hexadecimal value of udh[-4:-2] for every
\* valid udh of length >= 4, and "1" for an empty or shorter udh.
C5_Original ==
    Returned("extract_total_parts") =>
        LET u == call.arg IN
        /\ (ValidUdh(u) /\ Len(u) >= 4 => IsDecimalOf(ret, HexRead(PairTotal(u), 0)))
        /\ (u = NaN \/ Len(u) < 4 => ret = <<"1">>)

\* C5 amended: for a valid udh of length >= 4, Total Parts is the decimal
\* text of the hexadecimal value of udh[-4:-2] when that pair starts with a
\* decimal digit and "1" when it starts with a letter; "1" for an empty udh
\* or one shorter than 4.
C5_TotalParts ==
    Returned("extract_total_parts") =>
        LET u == call.arg IN
        /\ (ValidUdh(u) /\ Len(u) >= 4 =>
                IF PairTotal(u)[1] \in Digits
                THEN IsDecimalOf(ret, HexRead(PairTotal(u), 0))
                ELSE ret = <<"1">>)
        /\ (u = NaN \/ Len(u) < 4 => ret = <<"1">>)

\* C5 witness: udh "03A03" gave Total Parts "58" (hexadecimal 3A).
C5_Witness ==
    /\ Returned("extract_total_parts")
    /\ call.arg = <<"0", "3", "A", "0", "3">>
    /\ ret = <<"5", "8">>

\* C6 as stated: Part Num is the hexadecimal value of udh[-2:] for every
\* valid udh of length >= 2, and "1" for an empty or shorter udh and for a
\* tail that is not alphanumeric.
C6_Original ==
    Returned("extract_part_num") =>
        LET u == call.arg IN
        /\ (ValidUdh(u) /\ Len(u) >= 2 => IsDecimalOf(ret, HexRead(PairNum(u), 0)))
        /\ (u = NaN \/ Len(u) < 2 => ret = <<"1">>)
        /\ (u # NaN /\ Len(u) >= 2 /\ ~(PairNum(u)[1] \in Letters \cup Digits
                                        /\ PairNum(u)[2] \in Letters \cup Digits)
                => ret = <<"1">>)

\* C6 amended: for a valid udh of length >= 2, Part Num is the decimal text
\* of the hexadecimal value of udh[-2:] when that pair starts with a decimal
\* digit and "1" when it starts with a letter; "1" for an empty udh, one
\* shorter than 2, or one whose last two characters are not both
\* alphanumeric.
C6_PartNum ==
    Returned("extract_part_num") =>
        LET u == call.arg IN
        /\ (ValidUdh(u) /\ Len(u) >= 2 =>
                IF PairNum(u)[1] \in Digits
                THEN IsDecimalOf(ret, HexRead(PairNum(u), 0))
                ELSE ret = <<"1">>)
        /\ (u = NaN \/ Len(u) < 2 => ret = <<"1">>)
        /\ (u # NaN /\ Len(u) >= 2 /\ ~(PairNum(u)[1] \in Letters \cup Digits
                                        /\ PairNum(u)[2] \in Letters \cup Digits)
                => ret = <<"1">>)

\* C6 witness: udh "0033A" gave Part Num "58" (hexadecimal 3A).
C6_Witness ==
    /\ Returned("extract_part_num")
    /\ call.arg = <<"0", "0", "3", "3", "A">>
    /\ ret = <<"5", "8">>

\* two-digit, zero-padded text of a number below 100
TwoDigitText(n) == <<DigitChar(n \div 10), DigitChar(n % 10)>>

\* the timestamp create_tag can read from date_received, NaT when none
TagTime(d) ==
    IF d.kind = "Timestamp" THEN d
    ELSE IF d.kind = "str" THEN to_datetime(d.s)
    ELSE NaT

\* udh with its last 4 characters removed when longer than 4
TagPrefix(u) == IF Len(u) > 4 THEN [i \in 1..(Len(u) - 4) |-> u[i]] ELSE u

\* the tag the claim describes, has_udh saying which form applies
TagExpected(r, has_udh) ==
    LET t == TagTime(r.date_received)
        to == Str(r.to)
        hhmm == TwoDigitText(t.hour) \o TwoDigitText(t.minute)
    IN  IF t.kind = "Timestamp"
        THEN IF has_udh
             THEN TagPrefix(r.udh) \o <<"-">> \o to \o <<"-">> \o hhmm
             ELSE to \o <<"-">> \o hhmm \o TwoDigitText(t.second)
        ELSE IF has_udh THEN TagPrefix(r.udh) \o <<"-">> \o to ELSE to

\* C4 as stated: the udh form applies to every non-empty udh, the
\* "{to}-{HH}{MM}{SS}" form to an empty or null udh.
C4_Original ==
    Returned("create_tag") =>
        ret = TagExpected(call.arg, call.arg.udh # NaN /\ call.arg.udh # <<>>)

\* C4 amended: for a parseable date_received create_tag returns
\* "{prefix}-{to}-{HH}{MM}" when udh holds a character that is not
\* whitespace (prefix is udh without its last 4 characters if len(udh) > 4,
\* udh unchanged otherwise) and "{to}-{HH}{MM}{SS}", without a leading dash,
\* when udh is null, empty or whitespace-only; hours, minutes and seconds
\* are zero-padded; when date_received does not parse the time suffix is
\* empty.
C4_CreateTag ==
    Returned("create_tag") =>
        ret = TagExpected(call.arg, call.arg.udh # NaN /\ ~AllBlank(call.arg.udh))

\* C4 witness: a udh longer than 4 with a parseable text date gave the
\* "{prefix}-{to}-{HH}{MM}" tag.
C4_Witness ==
    /\ Returned("create_tag")
    /\ call.arg.udh = <<"0", "A", "0", "0", "A">>
    /\ call.arg.to = <<"9", "8">>
    /\ call.arg.date_received.kind = "str"
    /\ ret = <<"0", "-", "9", "8", "-", "1", "4", "0", "7">>

\* C9 as stated: the result is the trimmed input without its quotes, holds
\* no quote and has no leading or trailing whitespace; null becomes "".
C9_Original ==
    Returned("process_message_body") =>
        /\ (call.arg = NaN => ret = <<>>)
        /\ (call.arg # NaN =>
                \A t \in SeqsUpTo(BodyAlphabet, Len(call.arg)) :
                    IsTrimOf(t, call.arg) => ret = SelectSeq(t, LAMBDA c : c # QUOTE))
        /\ NoQuoteIn(ret)
        /\ NoOuterBlank(ret)

\* C9 amended: process_message_body returns the input, trimmed of leading
\* and trailing whitespace and then with every double quote removed; the
\* result contains no quote, and it has no leading or trailing whitespace
\* when the trimmed input neither starts nor ends with a quote; null
\* becomes the empty string.
C9_MessageBody ==
    Returned("process_message_body") =>
        /\ (call.arg = NaN => ret = <<>>)
        /\ (call.arg # NaN =>
                \A t \in SeqsUpTo(BodyAlphabet, Len(call.arg)) :
                    IsTrimOf(t, call.arg) =>
                        /\ ret = SelectSeq(t, LAMBDA c : c # QUOTE)
                        /\ (t = <<>> \/ (t[1] # QUOTE /\ t[Len(t)] # QUOTE)
                                => NoOuterBlank(ret)))
        /\ NoQuoteIn(ret)

\* C9 witness: a padded body with a quote inside came back trimmed and
\* without the quote.
C9_Witness ==
    /\ Returned("process_message_body")
    /\ call.arg = <<" ", "a", QUOTE, "a">>
    /\ ret = <<"a", "a">>

\* the positions of the underscores of a file name, and the k-th of them
UnderscoresOf(s) == {i \in 1..Len(s) : s[i] = "_"}
Underscore(s, k) ==
    CHOOSE i \in UnderscoresOf(s) : Cardinality({j \in UnderscoresOf(s) : j < i}) = k - 1

\* the third underscore-delimited token of a name with two or more
\* underscores
ThirdToken(s) ==
    SubSeq(s, Underscore(s, 2) + 1,
           IF Cardinality(UnderscoresOf(s)) >= 3 THEN Underscore(s, 3) - 1 ELSE Len(s))

\* C14: for every file name the api_key is the third underscore-delimited
\* token, and "unknown" when the name has no third token (no underscore or
\* one underscore); extracting it raises nothing.
C14_Original ==
    Returned("api_key") =>
        /\ ret # IndexError
        /\ ret = IF Cardinality(UnderscoresOf(call.arg)) >= 2
                 THEN ThirdToken(call.arg)
                 ELSE <<"u", "n", "k", "n", "o", "w", "n">>

IsExampleRow(r) ==
    r.udh = ExampleUdh /\ r.to = ExampleTo /\ r.date_received \in ExampleDates

\* C19 as stated: for udh "0500030201", to "12345" and date_received
\* 2025-05-09T14:07:33 the Tag is "05000302-12345-1407".
C19_Original ==
    (Returned("create_tag") /\ IsExampleRow(call.arg)) =>
        ret = <<"0", "5", "0", "0", "0", "3", "0", "2", "-",
                "1", "2", "3", "4", "5", "-", "1", "4", "0", "7">>

\* C19 amended: for udh "0500030201", to "12345" and date_received
\* 2025-05-09T14:07:33 the Tag is "050003-12345-1407": the udh without its
\* last 4 characters, the recipient, hours and minutes.
C19_ExampleTag ==
    (Returned("create_tag") /\ IsExampleRow(call.arg)) =>
        ret = <<"0", "5", "0", "0", "0", "3", "-",
                "1", "2", "3", "4", "5", "-", "1", "4", "0", "7">>

\* C19 witness: create_tag has returned for the example given as a timestamp.
C19_Witness ==
    /\ Returned("create_tag")
    /\ IsExampleRow(call.arg)
    /\ call.arg.date_received.kind = "Timestamp"
    /\ Len(ret) = 17

\* C20 as stated: for udh "0500030201" Total Parts is "3".
C20_Original ==
    (Returned("extract_total_parts") /\ call.arg = ExampleUdh) => ret = <<"3">>

\* C20 amended: for udh "0500030201" Total Parts is "2", the value of the
\* characters [-4:-2] of the udh, which are "02".
C20_ExampleTotalParts ==
    (Returned("extract_total_parts") /\ call.arg = ExampleUdh) =>
        /\ SubSeq(call.arg, Len(call.arg) - 3, Len(call.arg) - 2) = <<"0", "2">>
        /\ ret = <<"2">>

\* C20 witness: extract_total_parts has returned for the example udh.
C20_Witness ==
    /\ Returned("extract_total_parts")
    /\ call.arg = ExampleUdh
    /\ Len(ret) = 1

\* C26: for every udh that create_tag takes as absent (null, empty or blank:
\* the tag then carries the seconds), extract_total_parts and
\* extract_part_num both answer "1".
C26_AbsentUdhIsOnePart ==
    /\ (Returned("extract_total_parts") \/ Returned("extract_part_num")) =>
            (~UdhPresent(call.arg) => ret = <<"1">>)
    /\ Returned("create_tag") /\ call.arg.date_received.kind = "Timestamp" =>
            LET d == call.arg.date_received
                hhmm == <<"-">> \o TwoDigitText(d.hour) \o TwoDigitText(d.minute)
            IN  IF UdhPresent(call.arg.udh)
                THEN EndsWith(ret, hhmm)
                ELSE EndsWith(ret, hhmm \o TwoDigitText(d.second))

\* C26 witness: the blank udh "  " gave Part Num "1".
C26_Witness ==
    /\ Returned("extract_part_num")
    /\ call.arg = <<" ", " ">>
    /\ ret = <<"1">>

(***************************************************************************)
(* Properties of process_all_subaccounts (specification SpecSuspend).      *)
(***************************************************************************)
\* how often x occurs in the sequence s
Occurrences(s, x) == Cardinality({k \in 1..Len(s) : s[k] = x})

\* the keys of the failed list
FailedKeys == [k \in 1..Len(results.failed) |-> results.failed[k][1]]

\* C27: process_all_subaccounts sends one suspend request per entry of
\* SUB_API_KEYS, in list order, whatever the earlier requests answered; when
\* it ends every key is in exactly one of the lists success and failed, so
\* their lengths add up to the length of SUB_API_KEYS; with an empty
\* AUTH_TOKEN no request is sent.
C27_OneRequestPerKey ==
    /\ Len(upstream) = key_index
    /\ key_index <= Len(SUB_API_KEYS)
    /\ \A k \in 1..Len(upstream) :
        /\ upstream[k].method = "PATCH"
        /\ upstream[k].url = <<BASE_URL, SUB_API_KEYS[k]>>
        /\ (upstream[k].outcome = "RequestException" =>
                \E f \in 1..Len(results.failed) : results.failed[f][1] = SUB_API_KEYS[k])
    /\ Len(results.success) + Len(results.failed) = key_index
    /\ \A x \in SubKeys :
        Occurrences(results.success, x) + Occurrences(FailedKeys, x)
            = Occurrences(SubSeq(SUB_API_KEYS, 1, key_index), x)
    /\ (pc = "done" =>
            /\ key_index = Len(SUB_API_KEYS)
            /\ Len(results.success) + Len(results.failed) = Len(SUB_API_KEYS))
    /\ (AUTH_TOKEN = "" => upstream = <<>> /\ pc \in {"check_auth_token", "exit 1"})
    /\ (AUTH_TOKEN # "" => pc # "exit 1")

\* C27 witness: a run over three keys ended after a request that raised, one
\* answered with an error status and one that succeeded.
C27_Witness ==
    /\ pc = "done"
    /\ Len(SUB_API_KEYS) = 3
    /\ Len(upstream) = 3
    /\ upstream[1].outcome = "RequestException"
    /\ results.failed = << <<SUB_API_KEYS[1], <<"timed out">> >>,
                           <<SUB_API_KEYS[2], <<"HTTP ", "4", "0", "4">> >> >>
    /\ results.success = <<SUB_API_KEYS[3]>>

(***************************************************************************)
(* Properties of the web applications (specification SpecWeb).             *)
(***************************************************************************)
\* the text of an entry under a key, empty when the entry has no such key
EntryText(number, key) == IF key \in DOMAIN number THEN number[key] ELSE ""

\* the positions of the entries that have a country and an msisdn
Sendable(numbers) ==
    {k \in 1..Len(numbers) :
        EntryText(numbers[k], "country") # "" /\ EntryText(numbers[k], "msisdn") # ""}

\* C28: a served buy_numbers or cancel_numbers request answers with one
\* result per requested number, in request order; total = successful +
\* failed = the number of requested entries; every entry that has a country
\* and an msisdn is sent upstream whatever happened to the entries before
\* it; an entry without country or msisdn is reported failed with 'Invalid
\* number data' and no request is sent for it.
C28_OneResultPerNumber ==
    (call.fn \in {"buy_numbers", "cancel_numbers"} /\ ret.status_code = 200) =>
        LET numbers == call.arg.numbers
            data == ret.body.data
            rs == data.results
        IN  /\ ret.body.success
            /\ Len(rs) = Len(numbers)
            /\ data.total = Len(numbers)
            /\ data.successful + data.failed = data.total
            /\ data.successful = Cardinality({k \in 1..Len(rs) : rs[k].success})
            /\ Len(upstream) = Cardinality(Sendable(numbers))
            /\ \A k \in 1..Len(numbers) :
                /\ rs[k].number = EntryText(numbers[k], "msisdn")
                /\ rs[k].country = EntryText(numbers[k], "country")
                /\ IF k \in Sendable(numbers)
                   THEN LET j == Cardinality({m \in Sendable(numbers) : m <= k}) IN
                        /\ upstream[j].method = "POST"
                        /\ upstream[j].data[1] = numbers[k].country
                        /\ upstream[j].data[2] = numbers[k].msisdn
                        /\ rs[k].success = (upstream[j].outcome = "ok")
                   ELSE /\ ~rs[k].success
                        /\ rs[k].error = "Invalid number data"

\* C28 witness: buy_numbers of render_main.py answered for an entry without
\* msisdn followed by a number that was bought.
C28_Witness ==
    /\ app = "render_main.py"
    /\ call.fn = "buy_numbers"
    /\ ret.status_code = 200
    /\ call.arg.numbers = <<[country |-> "GB"], [country |-> "US", msisdn |-> "12025550100"]>>
    /\ ret.body.data.results[1].error = "Invalid number data"
    /\ ret.body.data.results[2].success
    /\ ret.body.data.failed = 1
    /\ Len(upstream) = 1

\* what one step of render_main.py does to user_sessions
SessionStep ==
    LET user == call'.credentials.username
        others == (DOMAIN user_sessions) \ {user}
        OthersKept ==
            /\ (DOMAIN user_sessions') \ {user} = others
            /\ \A u \in others : user_sessions'[u] = user_sessions[u]
    IN  IF ~authenticated(call'.credentials)
        THEN /\ user_sessions' = user_sessions
             /\ upstream' = <<>>
             /\ ret'.status_code = 401
        ELSE IF call'.fn = "connect_account"
        THEN IF upstream'[1].outcome # "error"
             THEN /\ user \in DOMAIN user_sessions'
                  /\ user_sessions'[user].api_key = call'.arg.api_key
                  /\ OthersKept
             ELSE user_sessions' = user_sessions
        ELSE IF call'.fn = "disconnect_account"
        THEN /\ user \notin DOMAIN user_sessions'
             /\ OthersKept
        ELSE /\ user_sessions' = user_sessions
             /\ (call'.fn # "get_connection_status" /\ user \notin DOMAIN user_sessions =>
                    /\ ret'.status_code = 400
                    /\ upstream' = <<>>)

\* C29: render_main.py starts without sessions; a connect whose upstream
\* check succeeds gives the caller an entry, a connect whose check fails
\* changes nothing, disconnect removes the caller's entry and no other, no
\* other request changes user_sessions (so a user has an entry exactly when
\* that user's last connect-or-disconnect was a successful connect), and a
\* number or account request of a caller without entry is answered 400
\* without any upstream request.
C29_SessionsFollowConnects ==
    /\ user_sessions = [u \in {} |-> None]
    /\ [][app = "render_main.py" => SessionStep]_vars

\* C29 witness: a connect whose check failed left the session of an
\* earlier, successful connect in place.
C29_Witness ==
    /\ app = "render_main.py"
    /\ call.fn = "connect_account"
    /\ authenticated(call.credentials)
    /\ upstream # <<>>
    /\ upstream[1].outcome = "error"
    /\ call.arg.api_key = ""
    /\ APP_USERNAME \in DOMAIN user_sessions
    /\ user_sessions[APP_USERNAME].api_key = "key1"

NumberEndpoints ==
    {"get_owned_numbers", "search_numbers", "get_subaccounts", "buy_numbers",
     "cancel_numbers"}

\* C30 as stated: in main.py a number endpoint that is the first request
\* served, or that follows a /api/connect whose upstream check failed, is
\* answered 400 'Not connected to account' and sends nothing upstream.
C30_Original ==
    [][ ( /\ app = "main.py"
          /\ call'.fn \in NumberEndpoints
          /\ \/ call = NoCall
             \/ call.fn = "connect_account" /\ upstream[1].outcome = "error" )
        => ( /\ ret'.status_code = 400
             /\ ret'.detail = "Not connected to account"
             /\ upstream' = <<>> ) ]_vars

====
